---- MODULE Spec2Model ----
(***************************************************************************)
(* State-machine model of nomyo-js: the SecureByteContext scoping          *)
(* primitive, the KeyManager identity and the SecureCompletionClient       *)
(* request protocol (ensureKeys, encryptPayload, fetchServerPublicKey,     *)
(* decryptResponse, sendSecureRequest).                                    *)
(***************************************************************************)
EXTENDS Integers, Sequences, FiniteSets, TLC

VARIABLES
    uctx,      \* one SecureByteContext and the use() call running on it
    cfg,       \* ClientConfig as stored by the SecureCompletionClient constructor
    km,        \* KeyManager fields: publicKey, privateKey, publicKeyPem
    files,     \* client_keys/private_key.pem and client_keys/public_key.pem
    procs,     \* the async calls in flight on the client, one record per task
    net,       \* HTTP requests issued so far by the client's HttpClient
    gen,       \* key-pair generation bookkeeping (fresh ids, who generated)
    cr,        \* AESEncryption / RSAOperations calls made on their own
    hx         \* one HttpClient.get / post call and the exchange behind it

useVars == <<uctx>>
clientVars == <<cfg, km, files, procs, net, gen>>
vars == <<uctx, cfg, km, files, procs, net, gen, cr, hx>>

(***************************************************************************)
(* Byte buffers.  An ArrayBuffer is a sequence of runs [b, n]: n bytes of  *)
(* value b.  The encoding is exact and lets a 10 MiB buffer be a state.    *)
(***************************************************************************)
RECURSIVE SumRuns(_)
SumRuns(buf) == IF buf = <<>> THEN 0 ELSE Head(buf).n + SumRuns(Tail(buf))

ByteLength(buf) == SumRuns(buf)

Bytes(b, n) == IF n = 0 THEN <<>> ELSE <<[b |-> b, n |-> n]>>

\* no buffer (a variable not yet assigned), also the empty buffer
NoBuf == <<>>

AllZero(buf) == \A i \in DOMAIN buf : buf[i].b = 0

\* NodeSecureMemory.zeroMemory / BrowserSecureMemory.zeroMemory: view.fill(0)
zeroMemory(buf) == Bytes(0, ByteLength(buf))

(***************************************************************************)
(* SecureByteContext.use:                                                  *)
(*     try { return await fn(this.data); }                                 *)
(*     finally { if (this.useSecure) this.secureMemory.zeroMemory(data) }  *)
(* UseFinally is what runs once fn has settled with `outcome`: the buffer  *)
(* afterwards, the number of zeroMemory calls made, and what use settles   *)
(* with.                                                                   *)
(***************************************************************************)
UseFinally_ZeroOnSuccessOnly(data, useSecure, outcome) ==
    [data    |-> IF useSecure /\ outcome.ok THEN zeroMemory(data) ELSE data,
     zeroed  |-> IF useSecure /\ outcome.ok THEN 1 ELSE 0,
     outcome |-> outcome]

UseFinally(data, useSecure, outcome) ==
    [data    |-> IF useSecure THEN zeroMemory(data) ELSE data,
     zeroed  |-> IF useSecure THEN 1 ELSE 0,
     outcome |-> outcome]

(***************************************************************************)
(* Bounds of the SecureByteContext model.                                  *)
(***************************************************************************)
MaxUses == 2        \* use() calls made on one context
MaxByte == 2        \* byte values 0..MaxByte
MaxBufLen == 2      \* buffer lengths 0..MaxBufLen

ByteVals == 0..MaxByte

UseBuffers == {Bytes(b, n) : b \in ByteVals, n \in 0..MaxBufLen}

\* what fn settles with: its own value, or its own error
FnOutcomes == {[ok |-> TRUE, val |-> "value"], [ok |-> FALSE, val |-> "error"]}

NoOutcome == [ok |-> FALSE, val |-> "pending"]

\* a context nobody uses
UnusedCtx ==
    [data |-> NoBuf, useSecure |-> TRUE, pc |-> "idle", uses |-> 0,
     zeroCalls |-> 0, written |-> FALSE, atSettle |-> NoBuf,
     fnOutcome |-> NoOutcome, result |-> NoOutcome, log |-> <<>>]

\* new SecureByteContext(data, useSecure)
InitUse_ctx ==
    uctx \in [data : UseBuffers, useSecure : BOOLEAN, pc : {"idle"},
              uses : {0}, zeroCalls : {0}, written : {FALSE}, atSettle : {NoBuf},
              fnOutcome : {NoOutcome}, result : {NoOutcome}, log : {<<>>}]

\* context.use(fn): fn(this.data) is called and use awaits it
UseCall ==
    /\ uctx.pc \in {"idle", "settled"}
    /\ uctx.uses < MaxUses
    /\ uctx' = [uctx EXCEPT !.pc = "in_fn", !.uses = @ + 1, !.written = FALSE,
                            !.fnOutcome = NoOutcome, !.result = NoOutcome,
                            !.log = <<"fn_called">>]
    /\ UNCHANGED <<cr, hx, clientVars>>

\* fn, while it runs, stores bytes of its own into the buffer it was given
FnWrite ==
    /\ uctx.pc = "in_fn"
    /\ ~uctx.written
    /\ \E b \in ByteVals :
         uctx' = [uctx EXCEPT !.data = Bytes(b, ByteLength(uctx.data)),
                              !.written = TRUE]
    /\ UNCHANGED <<cr, hx, clientVars>>

\* the promise fn returned resolves or rejects (a synchronous throw included)
FnSettle ==
    /\ uctx.pc = "in_fn"
    /\ \E o \in FnOutcomes :
         uctx' = [uctx EXCEPT !.pc = "fn_settled", !.fnOutcome = o,
                              !.atSettle = uctx.data,
                              !.log = Append(@, "fn_settled")]
    /\ UNCHANGED <<cr, hx, clientVars>>

\* the continuation of `await fn(...)`: the finally block, then use settles
UseSettle ==
    /\ uctx.pc = "fn_settled"
    /\ LET r == UseFinally(uctx.data, uctx.useSecure, uctx.fnOutcome) IN
         uctx' = [uctx EXCEPT !.pc = "settled", !.data = r.data,
                              !.zeroCalls = @ + r.zeroed,
                              !.result = r.outcome,
                              !.log = @ \o [i \in 1..r.zeroed |-> "zeroMemory"]
                                        \o <<"use_settled">>]
    /\ UNCHANGED <<cr, hx, clientVars>>

NextUse == UseCall \/ FnWrite \/ FnSettle \/ UseSettle

(***************************************************************************)
(* The SecureCompletionClient.                                             *)
(***************************************************************************)
MaxKeyPairs == 3    \* RSA key pairs that exist over a run (ids 1..MaxKeyPairs)
MaxCalls == 2       \* API calls started on the client over a run
MaxRand == 1        \* distinct values a random byte string may take

Procs == {1, 2}     \* concurrent async tasks calling into the one client

RandVals == 1..MaxRand

\* routerUrl after the constructor's replace(/\/$/, ''); only the scheme is read
RouterUrls == {[scheme |-> "https://", rest |-> "router:12434"],
               [scheme |-> "http://", rest |-> "router:12434"]}

\* this.routerUrl.startsWith('https://')
StartsWithHttps(url) == url.scheme = "https://"

\* KeyManager: a CryptoKey is named by the key pair it belongs to; 0 is undefined
NoKey == 0
NoPem == [type |-> "none", body |-> 0, wrapped |-> FALSE]

\* arrayBufferToPem(spki, 'PUBLIC') of the public key of pair k
PublicPem(k) == [type |-> "PUBLIC", body |-> k, wrapped |-> FALSE]

\* RSAOperations.exportPrivateKey(privateKey, password): `if (password)` wraps
ExportPrivateKey(k, password) ==
    [type |-> "PRIVATE", body |-> k, wrapped |-> (password # "")]

\* RSAOperations.importPrivateKey(pem, password): 0 when the import throws.
\* Without a password the PEM body is handed to importKey('pkcs8') as it is,
\* with one it is first unwrapped.
ImportPrivateKey(pem, password) ==
    IF pem.type # "PRIVATE" THEN NoKey
    ELSE IF password # "" THEN (IF pem.wrapped THEN pem.body ELSE NoKey)
    ELSE (IF pem.wrapped THEN NoKey ELSE pem.body)

\* RSAOperations.importPublicKey(pem): 0 when the import throws
ImportPublicKey(pem) == IF pem.type = "PUBLIC" THEN pem.body ELSE NoKey

\* KeyManager.hasKeys(): !!(this.privateKey && this.publicKey)
hasKeys == km.privateKey # NoKey /\ km.publicKey # NoKey

NoFile == [pem |-> NoPem, mode |-> 0]

\* what client_keys/ may hold when the client is constructed: nothing, a
\* pair saved without or with a password, a private key alone, and a private
\* key beside a public_key.pem that is no SPKI key
InitialDisks ==
    {[priv |-> NoFile, pub |-> NoFile],
     [priv |-> [pem |-> ExportPrivateKey(1, ""), mode |-> 600],
      pub |-> [pem |-> PublicPem(1), mode |-> 644]],
     [priv |-> [pem |-> ExportPrivateKey(1, "pw"), mode |-> 600],
      pub |-> [pem |-> PublicPem(1), mode |-> 644]],
     [priv |-> [pem |-> ExportPrivateKey(1, ""), mode |-> 600],
      pub |-> NoFile],
     [priv |-> [pem |-> ExportPrivateKey(1, ""), mode |-> 600],
      pub |-> [pem |-> PublicPem(NoKey), mode |-> 644]]}

\* `ek` of a call (below) lists what its ensureKeys, loadKeys and
\* generateKeys did, in order: "held" / "empty" (hasKeys() on entry), "access"
\* (fs.access of the key files), "load" (loadKeys called), "loaded" (it
\* resolved), "generate" (a pair generated), "save" (both files written),
\* "resolved" (ensureKeys resolved).
\* Errors: the class (error.name) and the message, kept as its parts
Err(name, msg) == [ok |-> FALSE, name |-> name, msg |-> msg, status |-> 0, val |-> <<>>]
ApiErr(name, msg, status) == [Err(name, msg) EXCEPT !.status = status]
Ok(v) == [ok |-> TRUE, name |-> "", msg |-> <<>>, status |-> 0, val |-> v]
Pending == Err("pending", <<>>)

\* KeyGenOptions as generateKeys destructures them; "" is `password` undefined
NoOpts == [saveToFile |-> FALSE, password |-> ""]

\* no SecureChatCompletion.create call: the client was called directly
NoRequest == [given |-> <<>>, after |-> <<>>, made |-> FALSE]

IdleProc ==
    [op |-> "idle", pc |-> "idle", ret |-> "", opts |-> NoOpts,
     payload |-> NoBuf, payloadBytes |-> NoBuf, aesKeyBytes |-> NoBuf,
     plaintext |-> NoBuf, keyPair |-> NoKey, pem |-> NoPem, pkg |-> <<>>,
     gets |-> 0, posts |-> 0, writes |-> 0, io |-> "", status |-> 0, cause |-> "",
     ek |-> <<>>, warn |-> {},
     payloadId |-> "", apiKey |-> "", post |-> <<>>,
     privateKeyUsed |-> FALSE, usedKey |-> NoKey, decrypts |-> 0,
     request |-> NoRequest,
     result |-> Pending]

\* ClientConfig.keySize: 2048 | 4096
KeySizes == {2048, 4096}

\* the constructor's default for keySize
DEFAULT_KEY_SIZE == 4096

\* every ClientConfig the constructor accepts that leaves keySize out, in Node
\* and in a browser
ClientConfigs ==
    [routerUrl : RouterUrls, allowHttp : BOOLEAN, secureMemory : BOOLEAN,
     browser : BOOLEAN, keySize : {DEFAULT_KEY_SIZE}]

\* the ClientConfigs that name a keySize and leave everything else out
KeySizeConfigs ==
    [routerUrl : {r \in RouterUrls : StartsWithHttps(r)}, allowHttp : {FALSE},
     secureMemory : {TRUE}, browser : BOOLEAN, keySize : KeySizes]

\* the keySize client.generateKeys hands to the KeyManager: {keySize: 4096,
\* ...options}, where options has saveToFile, keyDir and password
GenerateKeysSize(config, options) == 4096

InitClient(tasks, configs) ==
    /\ cfg \in configs
    /\ km = [publicKey |-> NoKey, privateKey |-> NoKey, publicKeyPem |-> NoPem]
    /\ files \in (IF cfg.browser THEN {[priv |-> NoFile, pub |-> NoFile]}
                  ELSE InitialDisks)
    /\ procs = [p \in Procs |-> IdleProc]
    /\ net = [gets |-> 0, posts |-> 0]
    /\ gen = [next |-> (IF files.priv = NoFile THEN 1 ELSE 2),
              calls |-> 0, auto |-> 0, written |-> 0, bits |-> 0, tasks |-> tasks]

(***************************************************************************)
(* Control flow.  Every action is the synchronous segment a task runs      *)
(* between two awaits; pc names the await the task is suspended at.        *)
(***************************************************************************)
RequestOps == {"sendSecureRequest", "encryptPayload", "decryptResponse",
               "fetchServerPublicKey"}

CanCall(p) ==
    p \in gen.tasks /\ procs[p].pc \in {"idle", "done"} /\ gen.calls < MaxCalls

Called == [gen EXCEPT !.calls = @ + 1]

Finish(pr, result) == [pr EXCEPT !.pc = "done", !.result = result]

\* the caller's continuation of `await this.ensureKeys()`
EnsureDone(pr) ==
    [pr EXCEPT !.pc = IF pr.ret = "send" THEN "send_encrypt" ELSE "enc_body",
               !.ek = Append(@, "resolved")]

\* KeyManager.generateKeys up to `await this.rsa.generateKeyPair(keySize)`
GenerateKeysEntry(pr, opts) == [pr EXCEPT !.pc = "gk_generate", !.opts = opts]

\* KeyManager.loadKeys up to `await fs.readFile(paths.privateKeyPath)`
LoadKeysEntry(pr, password) ==
    IF cfg.browser
    THEN [pr EXCEPT !.pc = "lk_failed", !.opts = [NoOpts EXCEPT !.password = password],
                    !.ek = Append(@, "load")]
    ELSE [pr EXCEPT !.pc = "lk_read_priv", !.opts = [NoOpts EXCEPT !.password = password],
                    !.ek = Append(@, "load")]

EnsureKeysEntry_GenerateFirst(pr, ret) ==
    GenerateKeysEntry([pr EXCEPT !.ret = ret, !.ek = Append(@, "empty")],
                      [saveToFile |-> ~cfg.browser, password |-> ""])

\* ensureKeys up to its first await: returns at once when hasKeys(), skips
\* the load in a browser, otherwise awaits fs.access
EnsureKeysEntry(pr, ret) ==
    IF hasKeys THEN [pr EXCEPT !.ret = ret, !.pc = "ek_return", !.ek = Append(@, "held")]
    ELSE IF ~cfg.browser
    THEN [pr EXCEPT !.ret = ret, !.pc = "ek_access", !.ek = Append(@, "empty")]
    ELSE GenerateKeysEntry([pr EXCEPT !.ret = ret, !.ek = Append(@, "empty")],
                           [saveToFile |-> ~cfg.browser, password |-> ""])

\* generateKeys (or a saveKeys called on its own) has settled with `outcome`
AfterGenerate(pr, outcome) ==
    IF pr.op \in {"generateKeys", "saveKeys"} \/ ~outcome.ok THEN Finish(pr, outcome)
    ELSE EnsureDone(pr)

\* loadKeys has settled with `outcome`; inside ensureKeys a failure is caught
\* and generateKeys({saveToFile: typeof window === 'undefined'}) is called
AfterLoad(pr, outcome) ==
    IF pr.op = "loadKeys" THEN Finish(pr, outcome)
    ELSE IF outcome.ok THEN EnsureDone([pr EXCEPT !.ek = Append(@, "loaded")])
    ELSE GenerateKeysEntry(pr, [saveToFile |-> ~cfg.browser, password |-> ""])

\* client.generateKeys(options)
Call_generateKeys(p) ==
    /\ CanCall(p)
    /\ \E save \in BOOLEAN, pw \in {"", "pw"} :
         procs' = [procs EXCEPT ![p] =
                     GenerateKeysEntry([IdleProc EXCEPT !.op = "generateKeys"],
                                       [saveToFile |-> save, password |-> pw])]
    /\ gen' = Called
    /\ UNCHANGED <<uctx, cr, hx, cfg, km, files, net>>

\* client.loadKeys('client_keys/private_key.pem', 'client_keys/public_key.pem', password)
Call_loadKeys(p) ==
    /\ CanCall(p)
    /\ \E pw \in {"", "pw"} :
         procs' = [procs EXCEPT ![p] =
                     LoadKeysEntry([IdleProc EXCEPT !.op = "loadKeys"], pw)]
    /\ gen' = Called
    /\ UNCHANGED <<uctx, cr, hx, cfg, km, files, net>>

\* loadKeys in a browser: throws before touching anything
LoadRejected(p) ==
    /\ procs[p].pc = "lk_failed"
    /\ procs' = [procs EXCEPT ![p] =
         AfterLoad(procs[p], Err("Error", <<"File-based key loading is not supported in browsers">>))]
    /\ UNCHANGED <<uctx, cr, hx, cfg, km, files, net, gen>>

\* ensureKeys found hasKeys() true; the awaiting caller resumes
EnsureReturn(p) ==
    /\ procs[p].pc = "ek_return"
    /\ procs' = [procs EXCEPT ![p] = EnsureDone(procs[p])]
    /\ UNCHANGED <<uctx, cr, hx, cfg, km, files, net, gen>>

\* ensureKeys: fs.access of both key files, then loadKeys or (catch) generate
EnsureAccess(p) ==
    /\ procs[p].pc = "ek_access"
    /\ LET pr == [procs[p] EXCEPT !.ek = Append(@, "access")] IN
         procs' = [procs EXCEPT ![p] =
           IF files.priv # NoFile /\ files.pub # NoFile
           THEN LoadKeysEntry(pr, "")
           ELSE GenerateKeysEntry(pr, [saveToFile |-> ~cfg.browser, password |-> ""])]
    /\ UNCHANGED <<uctx, cr, hx, cfg, km, files, net, gen>>

\* loadKeys: readFile(privateKeyPath) settles; importPrivateKey is called
LoadReadPrivate(p) ==
    /\ procs[p].pc = "lk_read_priv"
    /\ procs' = [procs EXCEPT ![p] =
         IF files.priv = NoFile
         THEN AfterLoad(procs[p], Err("Error", <<"ENOENT">>))
         ELSE [procs[p] EXCEPT !.pc = "lk_import_priv", !.pem = files.priv.pem]]
    /\ UNCHANGED <<uctx, cr, hx, cfg, km, files, net, gen>>

\* loadKeys: this.privateKey = await importPrivateKey(...); readFile(public)
LoadImportPrivate(p) ==
    /\ procs[p].pc = "lk_import_priv"
    /\ LET k == ImportPrivateKey(procs[p].pem, procs[p].opts.password) IN
         IF k = NoKey
         THEN /\ procs' = [procs EXCEPT ![p] =
                   AfterLoad(procs[p], Err("Error", <<"importPrivateKey failed">>))]
              /\ km' = km
         ELSE /\ procs' = [procs EXCEPT ![p] = [procs[p] EXCEPT !.pc = "lk_read_pub"]]
              /\ km' = [km EXCEPT !.privateKey = k]
    /\ UNCHANGED <<uctx, cr, hx, cfg, files, net, gen>>

\* loadKeys: this.publicKeyPem = await readFile(public); importPublicKey
LoadReadPublic(p) ==
    /\ procs[p].pc = "lk_read_pub"
    /\ IF files.pub = NoFile
       THEN /\ procs' = [procs EXCEPT ![p] = AfterLoad(procs[p], Err("Error", <<"ENOENT">>))]
            /\ km' = km
       ELSE /\ procs' = [procs EXCEPT ![p] =
                 [procs[p] EXCEPT !.pc = "lk_import_pub", !.pem = files.pub.pem]]
            /\ km' = [km EXCEPT !.publicKeyPem = files.pub.pem]
    /\ UNCHANGED <<uctx, cr, hx, cfg, files, net, gen>>

\* loadKeys: this.publicKey = await importPublicKey(this.publicKeyPem)
LoadImportPublic(p) ==
    /\ procs[p].pc = "lk_import_pub"
    /\ LET k == ImportPublicKey(procs[p].pem) IN
         IF k = NoKey
         THEN /\ procs' = [procs EXCEPT ![p] =
                   AfterLoad(procs[p], Err("Error", <<"importPublicKey failed">>))]
              /\ km' = km
         ELSE /\ procs' = [procs EXCEPT ![p] = AfterLoad(procs[p], Ok(<<>>))]
              /\ km' = [km EXCEPT !.publicKey = k]
    /\ UNCHANGED <<uctx, cr, hx, cfg, files, net, gen>>

\* generateKeys: keyPair = await generateKeyPair(); this.publicKey and
\* this.privateKey are assigned; exportPublicKey(this.publicKey) is called
GenerateKeyPair(p) ==
    /\ procs[p].pc = "gk_generate"
    /\ gen.next <= MaxKeyPairs
    /\ km' = [km EXCEPT !.publicKey = gen.next, !.privateKey = gen.next]
    /\ procs' = [procs EXCEPT ![p] =
                   [procs[p] EXCEPT !.pc = "gk_export", !.keyPair = gen.next,
                                    !.ek = Append(@, "generate")]]
    /\ gen' = [gen EXCEPT !.next = @ + 1,
                          !.bits = GenerateKeysSize(cfg, procs[p].opts),
                          !.auto = IF procs[p].op \in RequestOps THEN @ + 1 ELSE @]
    /\ UNCHANGED <<uctx, cr, hx, cfg, files, net>>

\* KeyManager.getPrivateKey()
GetPrivateKey ==
    IF km.privateKey = NoKey
    THEN Err("Error", <<"No private key available. Generate or load keys first.">>)
    ELSE Ok(km.privateKey)

\* KeyManager.getPublicKeyPEM(): the PEM held, else the export of the public
\* key held, else the error
GetPublicKeyPEM ==
    IF km.publicKeyPem # NoPem THEN Ok(km.publicKeyPem)
    ELSE IF km.publicKey = NoKey
    THEN Err("Error", <<"No public key available. Generate or load keys first.">>)
    ELSE Ok(PublicPem(km.publicKey))

\* saveKeys up to `await fs.mkdir(directory)`: the browser and no-keys checks
SaveKeysEntry_Skipped(pr) == AfterGenerate(pr, Ok(<<>>))

SaveKeysEntry(pr) ==
    IF cfg.browser
    THEN AfterGenerate(pr, Err("Error", <<"File-based key saving is not supported in browsers">>))
    ELSE IF km.privateKey = NoKey \/ km.publicKey = NoKey
    THEN AfterGenerate(pr, Err("Error", <<"No keys to save. Generate or load keys first.">>))
    ELSE [pr EXCEPT !.pc = "sk_mkdir"]

\* keyManager.saveKeys('client_keys', password)
Call_saveKeys(p) ==
    /\ CanCall(p)
    /\ \E pw \in {"", "pw"} :
         procs' = [procs EXCEPT ![p] =
            SaveKeysEntry([IdleProc EXCEPT !.op = "saveKeys",
                                           !.opts = [saveToFile |-> TRUE, password |-> pw]])]
    /\ gen' = Called
    /\ UNCHANGED <<uctx, cr, hx, cfg, km, files, net>>

\* generateKeys: this.publicKeyPem = await exportPublicKey(...); then
\* `if (saveToFile) await this.saveKeys(keyDir, password)`
GenerateExportPem(p) ==
    /\ procs[p].pc = "gk_export"
    /\ km' = [km EXCEPT !.publicKeyPem = PublicPem(procs[p].keyPair)]
    /\ procs' = [procs EXCEPT ![p] =
         IF procs[p].opts.saveToFile
         THEN SaveKeysEntry(procs[p])
         ELSE AfterGenerate(procs[p], Ok(<<>>))]
    /\ UNCHANGED <<uctx, cr, hx, cfg, files, net, gen>>

\* saveKeys: mkdir settles (it may fail: saveKeys and generateKeys reject);
\* exportPrivateKey(this.privateKey, password) is called on the key held now
SaveMkdir(p) ==
    /\ procs[p].pc = "sk_mkdir"
    /\ \/ procs' = [procs EXCEPT ![p] =
             [procs[p] EXCEPT !.pc = "sk_export",
                              !.pem = ExportPrivateKey(km.privateKey, procs[p].opts.password)]]
       \/ procs' = [procs EXCEPT ![p] = AfterGenerate(procs[p], Err("Error", <<"EACCES">>))]
    /\ UNCHANGED <<uctx, cr, hx, cfg, km, files, net, gen>>

\* saveKeys: exportPrivateKey settles; writeFile(private_key.pem) settles.
\* A new file gets the default mode, an existing one keeps its mode.
SaveWritePrivate(p) ==
    /\ procs[p].pc = "sk_export"
    /\ files' = [files EXCEPT !.priv =
                   [pem |-> procs[p].pem,
                    mode |-> IF files.priv = NoFile THEN 644 ELSE files.priv.mode]]
    /\ procs' = [procs EXCEPT ![p] =
                   [procs[p] EXCEPT !.pc = "sk_chmod_priv", !.writes = @ + 1]]
    /\ gen' = [gen EXCEPT !.written = IF procs[p].op \in RequestOps THEN @ + 1 ELSE @]
    /\ UNCHANGED <<uctx, cr, hx, cfg, km, net>>

\* saveKeys: chmod(private, 0o600) settles (a failure is only warned about,
\* `warn` keeps which); `if (!this.publicKeyPem)` the PEM is exported and kept;
\* writeFile(public_key.pem, this.publicKeyPem) is called with the PEM held now
SaveChmodPrivate_Fatal(p) ==
    /\ procs[p].pc = "sk_chmod_priv"
    /\ \/ /\ files' = [files EXCEPT !.priv.mode = 600]
          /\ procs' = [procs EXCEPT ![p] =
                         [procs[p] EXCEPT !.pc = "sk_write_pub", !.pem = GetPublicKeyPEM.val]]
       \/ /\ files' = files
          /\ procs' = [procs EXCEPT ![p] = AfterGenerate(procs[p], Err("Error", <<"EPERM">>))]
    /\ km' = [km EXCEPT !.publicKeyPem = GetPublicKeyPEM.val]
    /\ UNCHANGED <<uctx, cr, hx, cfg, net, gen>>

SaveChmodPrivate(p) ==
    /\ procs[p].pc = "sk_chmod_priv"
    /\ \/ /\ files' = [files EXCEPT !.priv.mode = 600]
          /\ procs' = [procs EXCEPT ![p] =
                         [procs[p] EXCEPT !.pc = "sk_write_pub", !.pem = GetPublicKeyPEM.val]]
       \/ /\ files' = files
          /\ procs' = [procs EXCEPT ![p] =
                         [procs[p] EXCEPT !.pc = "sk_write_pub", !.pem = GetPublicKeyPEM.val,
                                          !.warn = @ \cup {"private"}]]
    /\ km' = [km EXCEPT !.publicKeyPem = GetPublicKeyPEM.val]
    /\ UNCHANGED <<uctx, cr, hx, cfg, net, gen>>

\* saveKeys: writeFile(public_key.pem) settles
SaveWritePublic(p) ==
    /\ procs[p].pc = "sk_write_pub"
    /\ files' = [files EXCEPT !.pub =
                   [pem |-> procs[p].pem,
                    mode |-> IF files.pub = NoFile THEN 644 ELSE files.pub.mode]]
    /\ procs' = [procs EXCEPT ![p] =
                   [procs[p] EXCEPT !.pc = "sk_chmod_pub", !.writes = @ + 1,
                                    !.ek = Append(@, "save")]]
    /\ UNCHANGED <<uctx, cr, hx, cfg, km, net, gen>>

\* saveKeys: chmod(public, 0o644) settles; saveKeys and generateKeys resolve
SaveChmodPublic(p) ==
    /\ procs[p].pc = "sk_chmod_pub"
    /\ \/ /\ files' = [files EXCEPT !.pub.mode = 644]
          /\ procs' = [procs EXCEPT ![p] = AfterGenerate(procs[p], Ok(<<>>))]
       \/ /\ files' = files
          /\ procs' = [procs EXCEPT ![p] =
                         AfterGenerate([procs[p] EXCEPT !.warn = @ \cup {"public"}], Ok(<<>>))]
    /\ UNCHANGED <<uctx, cr, hx, cfg, km, net, gen>>

\* keyManager.getPrivateKey() called while no other call is in flight
Call_getPrivateKey(p) ==
    /\ CanCall(p)
    /\ procs' = [procs EXCEPT ![p] =
                   Finish([IdleProc EXCEPT !.op = "getPrivateKey"], GetPrivateKey)]
    /\ gen' = Called
    /\ UNCHANGED <<uctx, cr, hx, cfg, km, files, net>>

\* keyManager.getPublicKeyPEM(): a PEM exported on the way is kept
Call_getPublicKeyPEM(p) ==
    /\ CanCall(p)
    /\ procs' = [procs EXCEPT ![p] =
                   Finish([IdleProc EXCEPT !.op = "getPublicKeyPEM"], GetPublicKeyPEM)]
    /\ km' = IF GetPublicKeyPEM.ok THEN [km EXCEPT !.publicKeyPem = GetPublicKeyPEM.val]
             ELSE km
    /\ gen' = Called
    /\ UNCHANGED <<uctx, cr, hx, cfg, files, net>>

(***************************************************************************)
(* Cryptography, symbolically: a ciphertext names the key, the nonce and   *)
(* the plaintext it was made from, and opens only with those.              *)
(***************************************************************************)
MAX_PAYLOAD_SIZE == 10 * 1024 * 1024

AES_KEY_LENGTH == 32

\* the router's key pair, and a router key too short for OAEP-SHA256 of 32 bytes
ServerKey == MaxKeyPairs + 1
ShortServerKey == MaxKeyPairs + 2

\* JSON.parse(arrayBufferToString(buf)) yields an object iff the text starts with '{'
IsJsonObject(buf) == buf # <<>> /\ buf[1].b = 123

\* modulus of an RSA key in bits: the client's pairs and the router's key
\* have 4096, the router's short key 512
KeyBits(k) == IF k = ShortServerKey THEN 512 ELSE 4096

\* AESEncryption.encrypt(data, key): the nonce is drawn inside, the tag is appended
AesEncrypt(data, key, nonce) ==
    [kind |-> "aes-gcm", key |-> key, nonce |-> nonce, pt |-> data, intact |-> TRUE,
     byteLength |-> ByteLength(data) + 16]

\* AESEncryption.decrypt with a cipher that does not verify the tag
AesDecrypt_Unauthenticated(ct, nonce, key) ==
    IF ct.key = key /\ ct.nonce = nonce
    THEN [ok |-> TRUE, plaintext |-> ct.pt]
    ELSE [ok |-> FALSE, plaintext |-> NoBuf]

\* AESEncryption.decrypt(ciphertext, nonce, key): <<FALSE, _>> when it throws
AesDecrypt(ct, nonce, key) ==
    IF ct.intact /\ ct.key = key /\ ct.nonce = nonce
    THEN [ok |-> TRUE, plaintext |-> ct.pt]
    ELSE [ok |-> FALSE, plaintext |-> NoBuf]

\* RSAOperations.encryptKey(aesKey, publicKey): fails when the modulus is too short
RsaEncryptKey(aesKeyBytes, pub) ==
    IF pub = ShortServerKey
    THEN [kind |-> "rsa-oaep", ok |-> FALSE, pub |-> NoKey, key |-> NoBuf, byteLength |-> 0]
    ELSE [kind |-> "rsa-oaep", ok |-> TRUE, pub |-> pub, key |-> aesKeyBytes,
          byteLength |-> KeyBits(pub) \div 8]

\* RSAOperations.decryptKey(encryptedKey, privateKey): opens only a blob made
\* for the partner public key
RsaDecryptKey(ek, priv) ==
    IF ek.ok /\ priv # NoKey /\ ek.pub = priv
    THEN [ok |-> TRUE, key |-> ek.key]
    ELSE [ok |-> FALSE, key |-> NoBuf]

(***************************************************************************)
(* fetchServerPublicKey                                                    *)
(***************************************************************************)
SecurityError(msg) == Err("SecurityError", msg)
APIConnectionError(msg) == Err("APIConnectionError", msg)

\* what HttpClient.get / post settle with: a response, or a rejection
GetOutcomes ==
    {[kind |-> "response", status |-> 200, body |-> PublicPem(ServerKey)],
     [kind |-> "response", status |-> 200, body |-> PublicPem(ShortServerKey)],
     [kind |-> "response", status |-> 200, body |-> NoPem],
     [kind |-> "response", status |-> 500, body |-> NoPem],
     [kind |-> "timeout", status |-> 0, body |-> NoPem],
     [kind |-> "error", status |-> 0, body |-> NoPem]}

\* the HTTPS check at the head of fetchServerPublicKey
ChannelCheck_Missing == Ok(<<>>)

ChannelCheck ==
    IF ~StartsWithHttps(cfg.routerUrl) /\ ~cfg.allowHttp
    THEN SecurityError(<<"Server public key must be fetched over HTTPS to prevent MITM attacks.">>)
    ELSE Ok(<<>>)

\* the catch block of fetchServerPublicKey, rethrowing what it caught
FetchCatch_Rethrow(err) == err

\* the catch block of fetchServerPublicKey
FetchCatch(err) ==
    IF err.name = "SecurityError" THEN err
    ELSE APIConnectionError(<<"Failed to fetch server's public key: ">> \o err.msg)

\* fetchServerPublicKey from the point where httpClient.get has settled
FetchAfterGet(o) ==
    IF o.kind = "timeout" THEN FetchCatch(Err("Error", <<"Request timeout">>))
    ELSE IF o.kind = "error" THEN FetchCatch(Err("Error", <<"ECONNREFUSED">>))
    ELSE IF o.status = 200
    THEN IF ImportPublicKey(o.body) = NoKey
         THEN FetchCatch(Err("Error", <<"Server returned invalid public key format">>))
         ELSE Ok(o.body)
    ELSE FetchCatch(Err("Error", <<"Failed to fetch server's public key: HTTP ", "status">>))

\* client.fetchServerPublicKey(): the channel check, then httpClient.get
Call_fetchServerPublicKey(p) ==
    /\ CanCall(p)
    /\ LET pr == [IdleProc EXCEPT !.op = "fetchServerPublicKey"] IN
         IF ChannelCheck.ok
         THEN /\ procs' = [procs EXCEPT ![p] = [pr EXCEPT !.pc = "fk_get", !.gets = 1]]
              /\ net' = [net EXCEPT !.gets = @ + 1]
         ELSE /\ procs' = [procs EXCEPT ![p] = Finish(pr, ChannelCheck)]
              /\ net' = net
    /\ gen' = Called
    /\ UNCHANGED <<uctx, cr, hx, cfg, km, files>>

\* fetchServerPublicKey: the GET settles
FetchGetResponse(p) ==
    /\ procs[p].pc = "fk_get"
    /\ \E o \in GetOutcomes :
         procs' = [procs EXCEPT ![p] =
            Finish([procs[p] EXCEPT !.io = o.kind, !.status = o.status], FetchAfterGet(o))]
    /\ UNCHANGED <<uctx, cr, hx, cfg, km, files, net, gen>>

(***************************************************************************)
(* encryptPayload / performEncryption                                      *)
(***************************************************************************)
SmallSize == 4      \* bytes of a small serialized payload

\* payloads by their JSON.stringify text: a small one, one of exactly the
\* ceiling, one a byte over it; the last one is not an object
Payloads ==
    {[isObject |-> TRUE, json |-> Bytes(123, SmallSize)],
     [isObject |-> TRUE, json |-> Bytes(123, MAX_PAYLOAD_SIZE)],
     [isObject |-> TRUE, json |-> Bytes(123, MAX_PAYLOAD_SIZE + 1)],
     [isObject |-> FALSE, json |-> NoBuf]}

\* two tasks share the client
Concurrent == Cardinality(gen.tasks) > 1

\* the payloads a call is made with: every one when one task calls; the small
\* one and the one that is no object when two tasks share the client
CallPayloads ==
    IF Concurrent THEN {payload \in Payloads : ByteLength(payload.json) <= SmallSize}
    ELSE Payloads

\* encryptPayload: the size test, left out
TooLarge_Never(payloadBytes) == FALSE

\* encryptPayload: payloadBytes.byteLength > MAX_PAYLOAD_SIZE
TooLarge(payloadBytes) == ByteLength(payloadBytes) > MAX_PAYLOAD_SIZE

\* arrayBufferToBase64(buffer): the text that stands for the bytes
arrayBufferToBase64(buffer) == [b64 |-> buffer]

\* base64ToArrayBuffer(base64): the bytes the text stands for
base64ToArrayBuffer(base64) == base64.b64

\* the envelope performEncryption assembles, with the nonce field taken from
\* a buffer that was wiped first
EncryptedPackage_NonceWiped(ciphertext, nonce, encryptedAesKey) ==
    [version |-> "1.0",
     algorithm |-> "hybrid-aes256-rsa4096",
     encrypted_payload |-> [ciphertext |-> arrayBufferToBase64(ciphertext),
                            nonce |-> arrayBufferToBase64(zeroMemory(nonce))],
     encrypted_aes_key |-> arrayBufferToBase64(encryptedAesKey),
     key_algorithm |-> "RSA-OAEP-SHA256",
     payload_algorithm |-> "AES-256-GCM"]

\* the envelope performEncryption assembles, with the tag cut off the
\* ciphertext
EncryptedPackage_TagStripped(ciphertext, nonce, encryptedAesKey) ==
    [version |-> "1.0",
     algorithm |-> "hybrid-aes256-rsa4096",
     encrypted_payload |->
        [ciphertext |-> arrayBufferToBase64([ciphertext EXCEPT !.byteLength = @ - 16]),
         nonce |-> arrayBufferToBase64(nonce)],
     encrypted_aes_key |-> arrayBufferToBase64(encryptedAesKey),
     key_algorithm |-> "RSA-OAEP-SHA256",
     payload_algorithm |-> "AES-256-GCM"]

\* the envelope performEncryption assembles
EncryptedPackage(ciphertext, nonce, encryptedAesKey) ==
    [version |-> "1.0",
     algorithm |-> "hybrid-aes256-rsa4096",
     encrypted_payload |-> [ciphertext |-> arrayBufferToBase64(ciphertext),
                            nonce |-> arrayBufferToBase64(nonce)],
     encrypted_aes_key |-> arrayBufferToBase64(encryptedAesKey),
     key_algorithm |-> "RSA-OAEP-SHA256",
     payload_algorithm |-> "AES-256-GCM"]

\* performEncryption once the server key is imported: aes.encrypt under the
\* nonce it drew, rsa.encryptKey, the envelope
PerformEncryption(payloadBytes, aesKeyBytes, nonce, serverPublicKey) ==
    LET ct == AesEncrypt(payloadBytes, aesKeyBytes, nonce)
        ek == RsaEncryptKey(aesKeyBytes, serverPublicKey)
    IN IF ~ek.ok THEN Err("OperationError", <<"RSA-OAEP encryption failed">>)
       ELSE Ok(EncryptedPackage(ct, nonce, ek))

\* encryptPayload settles with `outcome` after both contexts were entered:
\* aesContext.use (useSecure = this.secureMemory) unwinds first, then the
\* payload context, which exists only `if (this.secureMemory)`
EncryptExit(pr, outcome) ==
    LET aes == UseFinally(pr.aesKeyBytes, cfg.secureMemory, outcome)
        pay == IF cfg.secureMemory
               THEN UseFinally(pr.payloadBytes, TRUE, aes.outcome)
               ELSE [data |-> pr.payloadBytes, zeroed |-> 0, outcome |-> aes.outcome]
    IN  [pr EXCEPT !.aesKeyBytes = aes.data, !.payloadBytes = pay.data,
                   !.result = pay.outcome]

\* encryptPayload has settled: its caller is the user, or sendSecureRequest,
\* which awaits it outside its try block
AfterEncrypt_AlwaysSend(pr) ==
    IF pr.op = "sendSecureRequest"
    THEN [pr EXCEPT !.pc = "send_headers", !.pkg = pr.result.val, !.result = Pending]
    ELSE [pr EXCEPT !.pc = "done"]

AfterEncrypt(pr) ==
    IF pr.op = "sendSecureRequest" /\ pr.result.ok
    THEN [pr EXCEPT !.pc = "send_headers", !.pkg = pr.result.val, !.result = Pending]
    ELSE [pr EXCEPT !.pc = "done"]

\* encryptPayload with ensureKeys ahead of the check of its payload
EncryptPayloadEntry_KeysFirst(pr) == EnsureKeysEntry(pr, "enc")

\* encryptPayload up to `await this.ensureKeys()`
EncryptPayloadEntry(pr) ==
    IF ~pr.payload.isObject
    THEN Finish(pr, Err("Error", <<"Payload must be an object">>))
    ELSE EnsureKeysEntry(pr, "enc")

\* client.encryptPayload(payload)
Call_encryptPayload(p) ==
    /\ CanCall(p)
    /\ \E payload \in CallPayloads :
         procs' = [procs EXCEPT ![p] =
            EncryptPayloadEntry([IdleProc EXCEPT !.op = "encryptPayload",
                                                 !.payload = payload])]
    /\ gen' = Called
    /\ UNCHANGED <<uctx, cr, hx, cfg, km, files, net>>

\* encryptPayload after ensureKeys: serialization, the size check, then
\* performEncryption up to the GET that fetchServerPublicKey issues
EncryptBody(p) ==
    /\ procs[p].pc = "enc_body"
    /\ LET pr == [procs[p] EXCEPT !.payloadBytes = procs[p].payload.json] IN
         IF TooLarge(pr.payloadBytes)
         THEN /\ procs' = [procs EXCEPT ![p] =
                   Finish(pr, Err("Error", <<"Payload too large">>))]
              /\ net' = net
         ELSE \E k \in RandVals :
              LET pr2 == [pr EXCEPT !.aesKeyBytes = Bytes(k, AES_KEY_LENGTH)] IN
                IF ChannelCheck.ok
                THEN /\ procs' = [procs EXCEPT ![p] =
                          [pr2 EXCEPT !.pc = "enc_get", !.gets = @ + 1]]
                     /\ net' = [net EXCEPT !.gets = @ + 1]
                ELSE /\ procs' = [procs EXCEPT ![p] =
                          AfterEncrypt(EncryptExit(pr2, ChannelCheck))]
                     /\ net' = net
    /\ UNCHANGED <<uctx, cr, hx, cfg, km, files, gen>>

\* performEncryption: the GET settles; importPublicKey, rsa.encryptKey, the
\* envelope; both contexts unwind and encryptPayload settles
EncryptGetResponse(p) ==
    /\ procs[p].pc = "enc_get"
    /\ \E o \in GetOutcomes, n \in RandVals :
         LET pr == [procs[p] EXCEPT !.io = o.kind, !.status = o.status]
             fetched == FetchAfterGet(o)
             outcome == IF ~fetched.ok THEN fetched
                        ELSE PerformEncryption(pr.payloadBytes, pr.aesKeyBytes,
                                               Bytes(n, 12), ImportPublicKey(o.body))
         IN procs' = [procs EXCEPT ![p] = AfterEncrypt(EncryptExit(pr, outcome))]
    /\ UNCHANGED <<uctx, cr, hx, cfg, km, files, net, gen>>

(***************************************************************************)
(* decryptResponse                                                         *)
(***************************************************************************)
TopFields == {"version", "algorithm", "encrypted_payload", "encrypted_aes_key"}
PayloadFields == {"ciphertext", "nonce"}

\* a response body: whether it is empty, whether it parses, whether the value
\* parsed and the one under encrypted_payload are objects, the fields they
\* have, and the values under them
Body(fields, payloadFields, pkg) ==
    [empty |-> FALSE, json |-> TRUE, object |-> TRUE, payloadObject |-> TRUE,
     fields |-> fields, payloadFields |-> payloadFields, pkg |-> pkg]

\* a JSON number where the schema has base64 text
NotBase64 == [number |-> 5]

\* atob accepts the value
IsBase64(value) == "b64" \in DOMAIN value

\* the envelopes a router (or whoever answers) may send to a client whose
\* X-Public-Key named key pair `pub`: well-formed ones with every way of
\* being wrong, and malformed ones
ResponseBodies(pub) ==
    {Body(TopFields, PayloadFields,
          EncryptedPackage([AesEncrypt(Bytes(b, SmallSize), Bytes(9, len), Bytes(1, 12))
                               EXCEPT !.intact = intact],
                           Bytes(1, 12),
                           [RsaEncryptKey(Bytes(9, len), pub) EXCEPT !.ok = wrapped])) :
        b \in {123, 1}, len \in {AES_KEY_LENGTH, 16}, intact \in BOOLEAN,
        wrapped \in BOOLEAN}
    \cup {Body(TopFields, PayloadFields,
               [EncryptedPackage(AesEncrypt(Bytes(123, SmallSize), Bytes(9, AES_KEY_LENGTH),
                                            Bytes(1, 12)),
                                 Bytes(1, 12),
                                 RsaEncryptKey(Bytes(9, AES_KEY_LENGTH), pub))
                   EXCEPT !.encrypted_payload.ciphertext = NotBase64])}
    \cup {[Body({}, {}, <<>>) EXCEPT !.empty = TRUE],
          [Body({}, {}, <<>>) EXCEPT !.json = FALSE],
          [Body({}, {}, <<>>) EXCEPT !.object = FALSE],
          [Body(TopFields, {}, <<>>) EXCEPT !.payloadObject = FALSE],
          Body(TopFields \ {"encrypted_aes_key"}, PayloadFields, <<>>),
          Body(TopFields, PayloadFields \ {"nonce"}, <<>>)}

StructurallyValid(body) ==
    ~body.empty /\ body.json /\ body.object /\ TopFields \subseteq body.fields
    /\ body.payloadObject /\ PayloadFields \subseteq body.payloadFields

\* the text of a JSON object, n bytes long
JsonText(doc, n) == <<[b |-> 123, n |-> n, doc |-> doc]>>

\* an object whose fields are not looked at
OpaqueObject == [id |-> "opaque"]

\* JSON.parse of the text of an object
JsonParse(buf) == IF "doc" \in DOMAIN buf[1] THEN buf[1].doc ELSE OpaqueObject

\* a property read that finds nothing
Undefined == "undefined"

MetadataNames == {"payload_id", "processed_at", "is_encrypted", "encryption_algorithm"}

\* the metadata step of decryptResponse, keeping the response's own
\* processed_at
AttachMetadata_KeepProcessedAt(response, payloadId, packageData) ==
    LET has == "_metadata" \in DOMAIN response
        names == IF has THEN DOMAIN response._metadata \cup MetadataNames ELSE MetadataNames
        meta == [n \in names |->
                    CASE n = "payload_id" -> payloadId
                      [] n = "processed_at" ->
                            IF has /\ "processed_at" \in DOMAIN response._metadata
                            THEN response._metadata[n]
                            ELSE IF "processed_at" \in DOMAIN packageData
                            THEN packageData.processed_at ELSE Undefined
                      [] n = "is_encrypted" -> TRUE
                      [] n = "encryption_algorithm" -> packageData.algorithm
                      [] OTHER -> response._metadata[n]]
    IN [n \in DOMAIN response \cup {"_metadata"} |->
            IF n = "_metadata" THEN meta ELSE response[n]]

\* the metadata step of decryptResponse: the response's _metadata, or {} when
\* it has none, spread under the four entries the client sets
AttachMetadata(response, payloadId, packageData) ==
    LET has == "_metadata" \in DOMAIN response
        names == IF has THEN DOMAIN response._metadata \cup MetadataNames ELSE MetadataNames
        meta == [n \in names |->
                    CASE n = "payload_id" -> payloadId
                      [] n = "processed_at" ->
                            IF "processed_at" \in DOMAIN packageData
                            THEN packageData.processed_at ELSE Undefined
                      [] n = "is_encrypted" -> TRUE
                      [] n = "encryption_algorithm" -> packageData.algorithm
                      [] OTHER -> response._metadata[n]]
    IN [n \in DOMAIN response \cup {"_metadata"} |->
            IF n = "_metadata" THEN meta ELSE response[n]]

\* the catch block of decryptResponse: every error becomes the one SecurityError
DecryptCatch_Leaky(err) == SecurityError(<<"Decryption failed: ">> \o err.msg)

DecryptCatch(err) ==
    SecurityError(<<"Decryption failed: integrity check or authentication failed">>)

\* the try block of decryptResponse: getPrivateKey and rsa.decryptKey, then
\* aesContext.use(importKey, aes.decrypt, plaintextContext.use(JSON.parse)),
\* then the metadata.  `cause` is the error the catch block discards.
DecryptTry(body, payloadId) ==
    LET pkg == body.pkg
        rsa == RsaDecryptKey(base64ToArrayBuffer(pkg.encrypted_aes_key), km.privateKey)
        keyOk == ByteLength(rsa.key) = AES_KEY_LENGTH
        textOk == IsBase64(pkg.encrypted_payload.ciphertext)
        dec == IF textOk
               THEN AesDecrypt(base64ToArrayBuffer(pkg.encrypted_payload.ciphertext),
                               base64ToArrayBuffer(pkg.encrypted_payload.nonce), rsa.key)
               ELSE [ok |-> FALSE, plaintext |-> NoBuf]
        inner == IF ~keyOk THEN Err("Error", <<"Invalid AES key length">>)
                 ELSE IF ~textOk THEN Err("InvalidCharacterError", <<"atob">>)
                 ELSE IF ~dec.ok THEN Err("Error", <<"AES-GCM decryption failed">>)
                 ELSE IF ~IsJsonObject(dec.plaintext) THEN Err("SyntaxError", <<"Unexpected token">>)
                 ELSE LET response == AttachMetadata(JsonParse(dec.plaintext), payloadId, pkg)
                      IN Ok([json |-> dec.plaintext, response |-> response,
                             metadata |-> response._metadata])
        ptx == IF keyOk /\ dec.ok
               THEN UseFinally(dec.plaintext, cfg.secureMemory, inner)
               ELSE [data |-> NoBuf, zeroed |-> 0, outcome |-> inner]
        aes == UseFinally(rsa.key, cfg.secureMemory, ptx.outcome)
    IN IF km.privateKey = NoKey
       THEN [outcome |-> Err("Error", <<"No private key available. Generate or load keys first.">>),
             aesKeyBytes |-> NoBuf, plaintext |-> NoBuf, privateKeyUsed |-> FALSE]
       ELSE IF ~rsa.ok
       THEN [outcome |-> Err("Error", <<"RSA-OAEP decryption failed">>),
             aesKeyBytes |-> NoBuf, plaintext |-> NoBuf, privateKeyUsed |-> TRUE]
       ELSE [outcome |-> aes.outcome, aesKeyBytes |-> aes.data, plaintext |-> ptx.data,
             privateKeyUsed |-> TRUE]

\* decryptResponse(encryptedResponse, payloadId), whole: it reads the private
\* key before its first await and nothing shared after it
DecryptResponse(caller, body, payloadId) ==
    LET pr == [caller EXCEPT !.decrypts = @ + 1] IN
    IF body.empty THEN Finish(pr, Err("Error", <<"Empty encrypted response">>))
    ELSE IF ~body.json
    THEN Finish(pr, Err("Error", <<"Invalid encrypted package format: malformed JSON">>))
    ELSE IF ~body.object
    THEN Finish(pr, Err("TypeError", <<"Cannot use 'in' operator to search for 'version'">>))
    ELSE IF ~(TopFields \subseteq body.fields)
    THEN Finish(pr, Err("Error", <<"Missing required field in encrypted package">>))
    ELSE IF ~body.payloadObject
    THEN Finish(pr, Err("TypeError", <<"Cannot use 'in' operator to search for 'ciphertext'">>))
    ELSE IF ~(PayloadFields \subseteq body.payloadFields)
    THEN Finish(pr, Err("Error", <<"Missing field in encrypted_payload">>))
    ELSE LET t == DecryptTry(body, payloadId) IN
         [pr EXCEPT !.pc = "done",
                    !.privateKeyUsed = t.privateKeyUsed,
                    !.usedKey = IF t.privateKeyUsed THEN km.privateKey ELSE NoKey,
                    !.aesKeyBytes = t.aesKeyBytes,
                    !.plaintext = t.plaintext,
                    !.cause = IF t.outcome.ok THEN "" ELSE t.outcome.msg[1],
                    !.result = IF t.outcome.ok THEN t.outcome ELSE DecryptCatch(t.outcome)]

\* client.decryptResponse(body, payloadId), the body made for the public key
\* the client holds or for somebody else's
Call_decryptResponse(p) ==
    /\ CanCall(p)
    /\ \E pub \in {km.publicKey, ServerKey} : \E body \in ResponseBodies(pub) :
         procs' = [procs EXCEPT ![p] =
            DecryptResponse([IdleProc EXCEPT !.op = "decryptResponse"], body, "payload-id")]
    /\ gen' = Called
    /\ UNCHANGED <<uctx, cr, hx, cfg, km, files, net>>

(***************************************************************************)
(* sendSecureRequest                                                       *)
(***************************************************************************)
Statuses == {200, 400, 401, 404, 429, 500, 503}

\* handleErrorResponse: the error class by status code
HandleErrorResponse(status) ==
    CASE status = 400 -> ApiErr("InvalidRequestError", <<"Bad request: ", "Unknown error">>, 400)
      [] status = 401 -> ApiErr("AuthenticationError", <<"Invalid API key or authentication failed: ", "Unknown error">>, 401)
      [] status = 404 -> ApiErr("APIError", <<"Endpoint not found: ", "Unknown error">>, 404)
      [] status = 429 -> ApiErr("RateLimitError", <<"Rate limit exceeded: ", "Unknown error">>, 429)
      [] status = 500 -> ApiErr("ServerError", <<"Server error: ", "Unknown error">>, 500)
      [] OTHER -> ApiErr("APIError", <<"Unexpected status code: ", "status">>, status)

\* the catch block around the POST, decryptResponse and handleErrorResponse:
\* every Error caught there is replaced by an APIConnectionError
SendCatch_TimeoutAsSecurity(err) ==
    IF err.msg = <<"Request timeout">>
    THEN SecurityError(<<"Connection to server timed out">>)
    ELSE APIConnectionError(<<"Failed to connect to router: ">> \o err.msg)

SendCatch(err) ==
    IF err.msg = <<"Request timeout">>
    THEN APIConnectionError(<<"Connection to server timed out">>)
    ELSE APIConnectionError(<<"Failed to connect to router: ">> \o err.msg)

\* payloadId and apiKey arguments; "" is `apiKey` undefined
PayloadIds == {"id-1", "id-2"}
ApiKeys == {"", "sk-1"}

\* the payloadId and apiKey arguments of sendSecureRequest: a call without
\* an API key, and one with
SendArguments == {<<"id-1", "">>, <<"id-2", "sk-1">>}

\* the arguments task p calls with: either pair when it is alone, its own
\* when two tasks share the client
CallArguments(p) ==
    IF Concurrent THEN {IF p = 1 THEN <<"id-1", "">> ELSE <<"id-2", "sk-1">>}
    ELSE SendArguments

\* client.sendSecureRequest(payload, payloadId, apiKey) up to its first await
Call_sendSecureRequest(p) ==
    /\ CanCall(p)
    /\ \E payload \in CallPayloads, args \in CallArguments(p) :
         procs' = [procs EXCEPT ![p] =
            EnsureKeysEntry([IdleProc EXCEPT !.op = "sendSecureRequest",
                                             !.payload = payload,
                                             !.payloadId = args[1],
                                             !.apiKey = args[2]], "send")]
    /\ gen' = Called
    /\ UNCHANGED <<uctx, cr, hx, cfg, km, files, net>>

\* sendSecureRequest resumes after ensureKeys and calls encryptPayload
SendEncrypt(p) ==
    /\ procs[p].pc = "send_encrypt"
    /\ procs' = [procs EXCEPT ![p] = EncryptPayloadEntry(procs[p])]
    /\ UNCHANGED <<uctx, cr, hx, cfg, km, files, net, gen>>

\* encodeURIComponent(text)
encodeURIComponent(text) == [percentEncoded |-> text]

\* sendSecureRequest: the headers object; `if (apiKey)` adds Authorization
Headers(payloadId, publicKeyPem, apiKey) ==
    [name \in {"X-Payload-ID", "X-Public-Key", "Content-Type"}
               \cup (IF apiKey # "" THEN {"Authorization"} ELSE {}) |->
        IF name = "X-Payload-ID" THEN <<payloadId>>
        ELSE IF name = "X-Public-Key" THEN <<encodeURIComponent(publicKeyPem)>>
        ELSE IF name = "Content-Type" THEN <<"application/octet-stream">>
        ELSE <<"Bearer ", apiKey>>]

\* sendSecureRequest: what httpClient.post is called with
PostRequest(pr, publicKeyPem) ==
    [url |-> <<cfg.routerUrl, "/v1/chat/secure_completion">>,
     headers |-> Headers(pr.payloadId, publicKeyPem, pr.apiKey),
     body |-> pr.pkg,
     timeout |-> 60000]

\* sendSecureRequest: keyManager.getPublicKeyPEM(), the headers, httpClient.post
SendHeaders(p) ==
    /\ procs[p].pc = "send_headers"
    /\ IF km.publicKeyPem = NoPem /\ km.publicKey = NoKey
       THEN /\ procs' = [procs EXCEPT ![p] =
                 Finish(procs[p], Err("Error", <<"No public key available. Generate or load keys first.">>))]
            /\ UNCHANGED <<km, net>>
       ELSE LET pem == IF km.publicKeyPem = NoPem THEN PublicPem(km.publicKey)
                       ELSE km.publicKeyPem IN
            /\ km' = [km EXCEPT !.publicKeyPem = pem]
            /\ procs' = [procs EXCEPT ![p] =
                 [procs[p] EXCEPT !.pc = "send_post", !.pem = pem, !.posts = @ + 1,
                                  !.post = PostRequest(procs[p], pem)]]
            /\ net' = [net EXCEPT !.posts = @ + 1]
    /\ UNCHANGED <<uctx, cr, hx, cfg, files, gen>>

\* sendSecureRequest from the point where httpClient.post has settled with `o`
SendAfterPost(pr0, o) ==
    LET pr == [pr0 EXCEPT !.io = o.kind, !.status = o.status] IN
    IF o.kind = "timeout" THEN Finish(pr, SendCatch(Err("Error", <<"Request timeout">>)))
    ELSE IF o.kind = "error" THEN Finish(pr, SendCatch(Err("Error", <<"ECONNRESET">>)))
    ELSE IF o.status = 200
    THEN LET d == DecryptResponse(pr, o.body, pr.payloadId) IN
         IF d.result.ok THEN d ELSE [d EXCEPT !.result = SendCatch(d.result)]
    ELSE Finish(pr, SendCatch(HandleErrorResponse(o.status)))

\* the POST settles: a response with a status and a body, a timeout, or a
\* transport error
SendPostResponse(p) ==
    /\ procs[p].pc = "send_post"
    /\ \/ \E kind \in {"timeout", "error"} :
            procs' = [procs EXCEPT ![p] =
               SendAfterPost(procs[p], [kind |-> kind, status |-> 0, body |-> <<>>])]
       \/ \E status \in Statuses \ {200} :
            procs' = [procs EXCEPT ![p] =
               SendAfterPost(procs[p], [kind |-> "response", status |-> status, body |-> <<>>])]
       \/ \E body \in ResponseBodies(ImportPublicKey(procs[p].pem)) :
            procs' = [procs EXCEPT ![p] =
               SendAfterPost(procs[p], [kind |-> "response", status |-> 200, body |-> body])]
    /\ UNCHANGED <<uctx, cr, hx, cfg, km, files, net, gen>>

\* BrowserHttpClient.get / post: the response head has arrived and the
\* timer is cleared; the body never ends, so response.arrayBuffer(), the
\* HttpClient call and the client call awaiting it stay pending
HttpStall(p) ==
    /\ cfg.browser
    /\ procs[p].pc \in {"fk_get", "enc_get", "send_post"}
    /\ procs' = [procs EXCEPT ![p] = [procs[p] EXCEPT !.pc = "stalled", !.io = "stall"]]
    /\ UNCHANGED <<uctx, cr, hx, cfg, km, files, net, gen>>

(***************************************************************************)
(* AESEncryption and RSAOperations called on their own.  subtle.generateKey *)
(* returns a new key object on every call and generateRandomBytes a new     *)
(* byte string; both are named by the number of the call that made them.    *)
(***************************************************************************)
MaxEncryptions == 3     \* performEncryption calls made over a run

\* no cipher operation applied yet
NoTrial == [kind |-> "none", input |-> <<>>, out |-> <<>>]

\* `trial` is the cipher operation applied last, with its input and what it
\* settled with
IdleCrypto ==
    [keys |-> 0, nonces |-> 0, calls |-> 0, encs |-> <<>>,
     task |-> [p \in Procs |-> [pc |-> "idle", call |-> 0, key |-> 0]],
     trial |-> NoTrial, draws |-> 0, exports |-> <<>>]

\* performEncryption: aesKey = await this.aes.generateKey(), exportKey
PerformGenerateKey_Cached(p) ==
    /\ cr.task[p].pc = "idle"
    /\ cr.calls < MaxEncryptions
    /\ cr' = [cr EXCEPT !.keys = IF @ = 0 THEN 1 ELSE @, !.calls = @ + 1,
                        !.task[p] = [pc |-> "encrypt", call |-> cr.calls + 1, key |-> 1]]
    /\ UNCHANGED <<uctx, hx, clientVars>>

PerformGenerateKey(p) ==
    /\ cr.task[p].pc = "idle"
    /\ cr.calls < MaxEncryptions
    /\ cr' = [cr EXCEPT !.keys = @ + 1, !.calls = @ + 1,
                        !.task[p] = [pc |-> "encrypt", call |-> cr.calls + 1,
                                     key |-> cr.keys + 1]]
    /\ UNCHANGED <<uctx, hx, clientVars>>

\* performEncryption: this.aes.encrypt(payloadBytes, aesKey); encrypt draws
\* the nonce itself and hands key, nonce and data to subtle.encrypt
PerformAesEncrypt(p) ==
    /\ cr.task[p].pc = "encrypt"
    /\ cr' = [cr EXCEPT !.nonces = @ + 1,
                        !.encs = Append(@, [call |-> cr.task[p].call,
                                            key |-> cr.task[p].key,
                                            nonce |-> cr.nonces + 1]),
                        !.task[p].pc = "settle"]
    /\ UNCHANGED <<uctx, hx, clientVars>>

\* performEncryption settles (package built, or the fetch / RSA step failed);
\* aesKey goes out of scope
PerformSettle(p) ==
    /\ cr.task[p].pc = "settle"
    /\ cr' = [cr EXCEPT !.task[p] = [pc |-> "idle", call |-> 0, key |-> 0]]
    /\ UNCHANGED <<uctx, hx, clientVars>>

\* byte strings handed to AESEncryption.encrypt: empty, one byte, a small
\* text, a text of exactly MAX_PAYLOAD_SIZE bytes
TrialPlaintexts ==
    {NoBuf, Bytes(1, 1), Bytes(123, SmallSize), Bytes(123, MAX_PAYLOAD_SIZE)}

\* raw AES-256 keys as aes.exportKey returns them
AesKeys == {Bytes(b, AES_KEY_LENGTH) : b \in ByteVals}

\* aes.encrypt(data, key) returns {ciphertext, nonce}; aes.decrypt is applied
\* to exactly that pair under the same key
AesRoundTrip ==
    /\ \E data \in TrialPlaintexts, key \in AesKeys, n \in RandVals :
         LET nonce == Bytes(n, 12)
             ciphertext == AesEncrypt(data, key, nonce)
         IN cr' = [cr EXCEPT !.trial =
                      [kind |-> "aes",
                       input |-> [data |-> data, key |-> key],
                       out |-> AesDecrypt(ciphertext, nonce, key)]]
    /\ UNCHANGED <<uctx, hx, clientVars>>

\* what may be altered in a package between performEncryption and
\* decryptResponse
Tamperings == {"none", "ciphertext", "nonce", "encrypted_aes_key"}

\* the package with the bytes under one field altered: a ciphertext whose
\* body or trailing tag changed is no longer intact, an altered nonce is
\* another nonce, an altered RSA blob is no longer an OAEP encryption
Tamper(pkg, what) ==
    LET ct == base64ToArrayBuffer(pkg.encrypted_payload.ciphertext)
        nonce == base64ToArrayBuffer(pkg.encrypted_payload.nonce)
        ek == base64ToArrayBuffer(pkg.encrypted_aes_key)
    IN IF what = "ciphertext"
       THEN [pkg EXCEPT !.encrypted_payload.ciphertext =
                            arrayBufferToBase64([ct EXCEPT !.intact = FALSE])]
       ELSE IF what = "nonce"
       THEN [pkg EXCEPT !.encrypted_payload.nonce =
                            arrayBufferToBase64(Bytes(nonce[1].b + 1, 12))]
       ELSE IF what = "encrypted_aes_key"
       THEN [pkg EXCEPT !.encrypted_aes_key =
                            arrayBufferToBase64([ek EXCEPT !.ok = FALSE])]
       ELSE pkg

\* performEncryption builds a package for `recipient` from an object's JSON
\* text; the package, altered or not, is handed to decryptResponse of the
\* client, which holds km.privateKey
PackageRoundTrip ==
    /\ \E json \in {Bytes(123, SmallSize), Bytes(123, MAX_PAYLOAD_SIZE)},
          key \in AesKeys, n \in RandVals,
          recipient \in {km.publicKey, ServerKey}, what \in Tamperings :
         LET made == PerformEncryption(json, key, Bytes(n, 12), recipient)
             body == Body(TopFields, PayloadFields, Tamper(made.val, what))
             done == DecryptResponse([IdleProc EXCEPT !.op = "decryptResponse"],
                                     body, "payload-id")
         IN cr' = [cr EXCEPT !.trial =
                      [kind |-> "package",
                       input |-> [json |-> json, recipient |-> recipient,
                                  tamper |-> what],
                       out |-> done.result]]
    /\ UNCHANGED <<uctx, hx, clientVars>>

\* the objects a decrypted response may be: without _metadata, and with a
\* _metadata that already has entries under the client's names and others
ResponseDocs ==
    {[id |-> "chatcmpl-1", model |-> "m"],
     [id |-> "chatcmpl-1", model |-> "m",
      _metadata |-> [response_status |-> "success"]],
     [id |-> "chatcmpl-1", model |-> "m",
      _metadata |-> [payload_id |-> "forged", processed_at |-> "1700",
                     is_encrypted |-> FALSE, encryption_algorithm |-> "none",
                     response_status |-> "success"]]}

\* the package with a processed_at field added, as a router may send it
Stamped(pkg, at) ==
    [n \in DOMAIN pkg \cup {"processed_at"} |-> IF n = "processed_at" THEN at ELSE pkg[n]]

\* a response object is encrypted for the client's key into a package, with
\* or without processed_at and under either algorithm name, and handed to
\* decryptResponse with a payload id
MetadataTrial ==
    /\ \E doc \in ResponseDocs, payloadId \in PayloadIds, stamped \in BOOLEAN,
          algorithm \in {"hybrid-aes256-rsa4096", "hybrid-aes256-rsa2048"} :
         LET made == PerformEncryption(JsonText(doc, SmallSize), Bytes(9, AES_KEY_LENGTH),
                                       Bytes(1, 12), km.publicKey)
             named == [made.val EXCEPT !.algorithm = algorithm]
             pkg == IF stamped THEN Stamped(named, "1800") ELSE named
             done == DecryptResponse([IdleProc EXCEPT !.op = "decryptResponse"],
                                     Body(TopFields, PayloadFields, pkg), payloadId)
         IN cr' = [cr EXCEPT !.trial =
                      [kind |-> "metadata",
                       input |-> [doc |-> doc, payloadId |-> payloadId, pkg |-> pkg],
                       out |-> done.result]]
    /\ UNCHANGED <<uctx, hx, clientVars>>

\* what the message of the error subtle.decrypt rejects with may be: the one
\* text a WebCrypto engine that hides the cause has, or the text of the
\* underlying RSA error, which names the failure
EngineMessages(failure) ==
    {"The operation failed for an operation-specific reason",
     IF failure = "length" THEN "data greater than mod len" ELSE "oaep decoding error"}

\* subtle.decrypt({name: 'RSA-OAEP'}, privateKey, encryptedKey): "" when it
\* resolves, else how it fails
SubtleDecryptFailure(encryptedKey, privateKey) ==
    IF encryptedKey.byteLength # KeyBits(privateKey) \div 8 THEN "length"
    ELSE IF ~encryptedKey.ok \/ encryptedKey.pub # privateKey THEN "padding"
    ELSE ""

\* RSAOperations.decryptKey(encryptedKey, privateKey): the engine's message
\* is appended to the error's
decryptKey(encryptedKey, privateKey, message) ==
    IF SubtleDecryptFailure(encryptedKey, privateKey) = "" THEN Ok(encryptedKey.key)
    ELSE Err("Error", <<"RSA-OAEP decryption failed: ", message>>)

\* RSA-OAEP blobs handed to decryptKey: made for the client's key or for
\* another, altered or not, whole or cut short
KeyBlobs ==
    {[RsaEncryptKey(Bytes(9, AES_KEY_LENGTH), pub)
         EXCEPT !.ok = ok, !.byteLength = @ - cut] :
        pub \in {km.publicKey, ServerKey}, ok \in BOOLEAN, cut \in {0, 1}}

\* decryptKey is called on two blobs with the client's private key, under
\* one engine
DecryptKeyTrial ==
    /\ \E first \in KeyBlobs, second \in KeyBlobs, specific \in BOOLEAN :
         LET Message(blob) ==
                 LET failure == SubtleDecryptFailure(blob, km.privateKey)
                 IN IF specific
                    THEN CHOOSE m \in EngineMessages(failure) :
                            m # "The operation failed for an operation-specific reason"
                    ELSE "The operation failed for an operation-specific reason"
         IN cr' = [cr EXCEPT !.trial =
                      [kind |-> "decryptKey",
                       input |-> [first |-> first, second |-> second],
                       out |-> [first |-> decryptKey(first, km.privateKey, Message(first)),
                                second |-> decryptKey(second, km.privateKey, Message(second))]]]
    /\ UNCHANGED <<uctx, hx, clientVars>>

\* decryptResponse is handed each body a router may send
MalformedTrial ==
    /\ \E body \in ResponseBodies(km.publicKey) :
         LET done == DecryptResponse([IdleProc EXCEPT !.op = "decryptResponse"],
                                     body, "payload-id")
         IN cr' = [cr EXCEPT !.trial =
                      [kind |-> "body",
                       input |-> body,
                       out |-> [result |-> done.result,
                                privateKeyUsed |-> done.privateKeyUsed]]]
    /\ UNCHANGED <<uctx, hx, clientVars>>

(***************************************************************************)
(* RSAOperations.exportPrivateKey / importPrivateKey in full.  A byte      *)
(* string is a sequence of segments [n, v]: n bytes that encode v.  The    *)
(* KeyManager above sees the same two functions through ExportPrivateKey   *)
(* and ImportPrivateKey, which keep only whether the PEM is wrapped.       *)
(***************************************************************************)
MaxExports == 2     \* password-protected exports made over a run

Seg(n, v) == <<[n |-> n, v |-> v]>>

\* crypto.getRandomValues: the byte string of draw i
Rand(i) == [kind |-> "rand", id |-> i]

\* bytes that encode nothing
Garbage == [kind |-> "garbage"]

\* subtle.exportKey('pkcs8', privateKey): the DER of a 4096-bit key
PKCS8_LENGTH == 2374

Pkcs8(k) == Seg(PKCS8_LENGTH, [kind |-> "pkcs8", key |-> k])

\* subtle.importKey('raw', password, 'PBKDF2') and deriveKey with the salt
DeriveKey(password, salt) == [kind |-> "aes-cbc", password |-> password, salt |-> salt]

\* subtle.encrypt({name: 'AES-CBC', iv}, derivedKey, keyData): PKCS#7 pads to
\* the next multiple of 16
CbcEncrypt(keyData, derivedKey, iv) ==
    Seg((ByteLength(keyData) \div 16 + 1) * 16,
        [kind |-> "cbc", key |-> derivedKey, iv |-> iv, pt |-> keyData])

\* subtle.decrypt({name: 'AES-CBC', iv}, derivedKey, encrypted).  AES-CBC is
\* not authenticated: under another key the blocks decrypt to other bytes,
\* and the call throws only if those do not end in valid PKCS#7 padding
\* (padOk says whether they do).
CbcDecrypt(encrypted, derivedKey, iv, padOk) ==
    IF encrypted.kind = "cbc" /\ encrypted.key = derivedKey /\ encrypted.iv = iv
    THEN [ok |-> TRUE, data |-> encrypted.pt]
    ELSE [ok |-> padOk, data |-> Seg(16, Garbage)]

\* combinedArray.slice(from, to): what the bytes at [from, to) encode
RECURSIVE Slice(_, _, _)
Slice(buf, from, to) ==
    IF buf = <<>> THEN Garbage
    ELSE IF from = 0
    THEN (IF Head(buf).n = to THEN Head(buf).v ELSE Garbage)
    ELSE IF from < Head(buf).n THEN Garbage
    ELSE Slice(Tail(buf), from - Head(buf).n, to - Head(buf).n)

\* arrayBufferToPem(buffer, type)
arrayBufferToPem(buffer, type) == [type |-> type, text |-> arrayBufferToBase64(buffer)]

\* pemToArrayBuffer(pem, type): header and footer of `type` are cut off and
\* the rest is decoded
pemToArrayBuffer(pem, type) ==
    IF pem.type = type THEN base64ToArrayBuffer(pem.text) ELSE Seg(16, Garbage)

\* encryptPrivateKeyWithPassword(keyData, password); salt and iv are the two
\* byte strings it draws
encryptPrivateKeyWithPassword(keyData, password, salt, iv) ==
    LET derivedKey == DeriveKey(password, salt)
        encrypted == CbcEncrypt(keyData, derivedKey, iv)
    IN arrayBufferToPem(Seg(16, salt) \o Seg(16, iv) \o encrypted, "PRIVATE")

\* decryptPrivateKeyWithPassword(pem, password): only subtle.decrypt is
\* inside the try
decryptPrivateKeyWithPassword(pem, password, padOk) ==
    LET combined == pemToArrayBuffer(pem, "PRIVATE")
        salt == Slice(combined, 0, 16)
        iv == Slice(combined, 16, 32)
        encrypted == Slice(combined, 32, ByteLength(combined))
        dec == CbcDecrypt(encrypted, DeriveKey(password, salt), iv, padOk)
    IN IF dec.ok THEN Ok(dec.data)
       ELSE Err("Error", <<"Failed to decrypt private key: invalid password or corrupted key">>)

\* exportPrivateKey(privateKey, password): `if (password)`
exportPrivateKey(privateKey, password, salt, iv) ==
    IF password # ""
    THEN encryptPrivateKeyWithPassword(Pkcs8(privateKey), password, salt, iv)
    ELSE arrayBufferToPem(Pkcs8(privateKey), "PRIVATE")

\* subtle.importKey('pkcs8', keyData, ...): a DataError unless the bytes are
\* the DER of a key
importKeyPkcs8(keyData) ==
    IF Len(keyData) = 1 /\ keyData[1].v.kind = "pkcs8" THEN Ok(keyData[1].v.key)
    ELSE Err("DataError", <<"Invalid keyData">>)

\* importPrivateKey(pem, password): `if (password)`, then importKey
importPrivateKey(pem, password, padOk) ==
    LET keyData == IF password # ""
                   THEN decryptPrivateKeyWithPassword(pem, password, padOk)
                   ELSE Ok(pemToArrayBuffer(pem, "PRIVATE"))
    IN IF keyData.ok THEN importKeyPkcs8(keyData.val) ELSE keyData

\* AESEncryption.importKey(keyData): the length check, then
\* subtle.importKey('raw', ...); `subtle` counts the calls made to the cipher
importKey(keyData) ==
    IF ByteLength(keyData) # AES_KEY_LENGTH
    THEN [outcome |-> Err("Error", <<"Invalid AES key length: expected 32 bytes, got ",
                                     "keyData.byteLength">>),
          subtle |-> 0]
    ELSE [outcome |-> Ok(keyData), subtle |-> 1]

\* lengths of the byte strings handed to importKey
KeyLengths == {0, 16, AES_KEY_LENGTH - 1, AES_KEY_LENGTH, AES_KEY_LENGTH + 1, 2 * AES_KEY_LENGTH}

\* aes.importKey(keyData) on a byte string of any length
ImportKeyTrial ==
    /\ \E b \in ByteVals, len \in KeyLengths :
         cr' = [cr EXCEPT !.trial = [kind |-> "importKey",
                                     input |-> [keyData |-> Bytes(b, len)],
                                     out |-> importKey(Bytes(b, len))]]
    /\ UNCHANGED <<uctx, hx, clientVars>>

\* passwords a caller may pass; "" is the empty string when the argument is
\* passed and stands for undefined when it is not
Passwords == {"", "pw", "pw2"}

\* exportPrivateKey(k, password) and then importPrivateKey of the PEM with
\* the password `given`
PasswordRoundTrip ==
    /\ Len(cr.exports) < MaxExports
    /\ \E k \in 1..MaxKeyPairs, password \in Passwords, given \in Passwords,
          padOk \in BOOLEAN, passed \in BOOLEAN :
         /\ passed \/ password = ""
         /\ LET salt == Rand(cr.draws + 1)
                iv == Rand(cr.draws + 2)
                pem == exportPrivateKey(k, password, salt, iv)
            IN cr' = [cr EXCEPT
                         !.draws = IF password # "" THEN @ + 2 ELSE @,
                         !.exports = IF password # ""
                                     THEN Append(@, [salt |-> salt, iv |-> iv])
                                     ELSE @,
                         !.trial = [kind |-> "password",
                                    input |-> [key |-> k, password |-> password,
                                               passed |-> passed,
                                               given |-> given, salt |-> salt,
                                               iv |-> iv, pem |-> pem],
                                    out |-> importPrivateKey(pem, given, padOk)]]
    /\ UNCHANGED <<uctx, hx, clientVars>>

(***************************************************************************)
(* HttpClient.get / post: one call and the exchange with the server.       *)
(* NodeHttpClient passes `timeout` to http.request, which is the socket's  *)
(* idle timeout for as long as the request owns the socket;                *)
(* BrowserHttpClient arms a timer that aborts the fetch.  The server sends *)
(* the response head, then body chunks, then the end of the body, and may  *)
(* stop or drop the connection at any point.                               *)
(***************************************************************************)
MaxChunks == 2      \* body chunks a response has

\* no call made
NoExchange ==
    [impl |-> "none", method |-> "none", phase |-> "none", timer |-> FALSE,
     status |-> 0, chunks |-> 0, promise |-> "none"]

\* post(url, options) / get(url, options) up to the point where the request
\* is on its way: the timeout is armed, the returned promise is pending
Exchange(impl, method) ==
    [impl |-> impl, method |-> method, phase |-> "request", timer |-> TRUE,
     status |-> 0, chunks |-> 0, promise |-> "pending"]

\* BrowserHttpClient: fetch resolves with the response head; clearTimeout
BrowserFetchResolves ==
    /\ hx.impl = "browser" /\ hx.phase = "request" /\ hx.promise = "pending"
    /\ \E status \in Statuses :
         hx' = [hx EXCEPT !.phase = "body", !.status = status, !.timer = FALSE]
    /\ UNCHANGED <<uctx, cr, clientVars>>

\* BrowserHttpClient: fetch rejects (no connection); catch: clearTimeout, rethrow
BrowserFetchRejects ==
    /\ hx.impl = "browser" /\ hx.phase = "request" /\ hx.promise = "pending"
    /\ hx' = [hx EXCEPT !.phase = "closed", !.timer = FALSE, !.promise = "error"]
    /\ UNCHANGED <<uctx, cr, clientVars>>

\* BrowserHttpClient: the timer fires, controller.abort(); the pending fetch
\* rejects with an AbortError, which the catch turns into 'Request timeout'
BrowserTimeout ==
    /\ hx.impl = "browser" /\ hx.timer /\ hx.promise = "pending"
    /\ hx' = [hx EXCEPT !.phase = "closed", !.timer = FALSE, !.promise = "timeout"]
    /\ UNCHANGED <<uctx, cr, clientVars>>

\* a chunk of the body arrives (response.arrayBuffer() / res.on('data'));
\* in Node the socket's idle timeout starts anew
BodyChunk ==
    /\ hx.phase = "body" /\ hx.promise = "pending" /\ hx.chunks < MaxChunks
    /\ hx' = [hx EXCEPT !.chunks = @ + 1]
    /\ UNCHANGED <<uctx, cr, clientVars>>

\* BrowserHttpClient: response.arrayBuffer() resolves; the response is returned
BrowserBodyEnd ==
    /\ hx.impl = "browser" /\ hx.phase = "body" /\ hx.promise = "pending"
    /\ hx' = [hx EXCEPT !.phase = "closed", !.promise = "resolved"]
    /\ UNCHANGED <<uctx, cr, clientVars>>

\* BrowserHttpClient: the connection is lost in the body; arrayBuffer()
\* rejects and the catch rethrows
BrowserBodyFails ==
    /\ hx.impl = "browser" /\ hx.phase = "body" /\ hx.promise = "pending"
    /\ hx' = [hx EXCEPT !.phase = "closed", !.promise = "error"]
    /\ UNCHANGED <<uctx, cr, clientVars>>

\* NodeHttpClient: the response callback runs on the response head
NodeResponse ==
    /\ hx.impl = "node" /\ hx.phase = "request" /\ hx.promise = "pending"
    /\ \E status \in Statuses : hx' = [hx EXCEPT !.phase = "body", !.status = status]
    /\ UNCHANGED <<uctx, cr, clientVars>>

\* NodeHttpClient: req.on('error'): reject(error)
NodeReqError ==
    /\ hx.impl = "node" /\ hx.phase = "request" /\ hx.promise = "pending"
    /\ hx' = [hx EXCEPT !.phase = "closed", !.timer = FALSE, !.promise = "error"]
    /\ UNCHANGED <<uctx, cr, clientVars>>

\* NodeHttpClient: req.on('timeout'): the socket was idle for `timeout` ms,
\* before the response head or within the body; req.destroy(), reject
NodeReqTimeout ==
    /\ hx.impl = "node" /\ hx.timer /\ hx.promise = "pending"
    /\ hx' = [hx EXCEPT !.phase = "closed", !.timer = FALSE, !.promise = "timeout"]
    /\ UNCHANGED <<uctx, cr, clientVars>>

\* NodeHttpClient: res.on('end'): resolve
NodeResEnd ==
    /\ hx.impl = "node" /\ hx.phase = "body" /\ hx.promise = "pending"
    /\ hx' = [hx EXCEPT !.phase = "closed", !.timer = FALSE, !.promise = "resolved"]
    /\ UNCHANGED <<uctx, cr, clientVars>>

HttpStep ==
    \/ BrowserFetchResolves \/ BrowserFetchRejects \/ BrowserTimeout
    \/ BodyChunk \/ BrowserBodyEnd \/ BrowserBodyFails
    \/ NodeResponse \/ NodeReqError \/ NodeReqTimeout \/ NodeResEnd

(***************************************************************************)
(* SecureChatCompletion.create                                             *)
(***************************************************************************)
\* the object with one property deleted
Without(object, name) == [n \in DOMAIN object \ {name} |-> object[n]]

\* a messages value: an array of messages, or something else
Messages == [array |-> TRUE, items |-> "hello"]
NotAnArray == [array |-> FALSE, items |-> "hello"]

\* ChatCompletionRequests as callers pass them: with and without api_key,
\* with an empty api_key, without `model`, without `messages`, and with
\* messages that is no array
ChatRequests ==
    {[model |-> "m", messages |-> Messages],
     [model |-> "m", messages |-> Messages, api_key |-> "sk-request"],
     [model |-> "m", messages |-> Messages, api_key |-> ""],
     [messages |-> Messages, api_key |-> "sk-request"],
     [model |-> "m", api_key |-> "sk-request"],
     [model |-> "m", messages |-> NotAnArray]}

\* create: the two checks made on the payload; an Ok when it passes
ValidateRequest_Accepting(payload) == Ok(<<>>)

ValidateRequest(payload) ==
    IF "model" \notin DOMAIN payload
    THEN Err("Error", <<"Missing required field: model">>)
    ELSE IF "messages" \notin DOMAIN payload \/ ~payload.messages.array
    THEN Err("Error", <<"Missing or invalid required field: messages">>)
    ELSE Ok(<<>>)

\* ChatCompletionConfig: what the SecureChatCompletion constructor keeps
\* (apiKey) and what it constructs its client with
ChatConfigs ==
    [routerUrl : {r \in RouterUrls : StartsWithHttps(r)}, allowHttp : {FALSE},
     secureMemory : BOOLEAN, browser : BOOLEAN, keySize : {DEFAULT_KEY_SIZE},
     apiKey : ApiKeys]

\* create: (request as any).api_key || this.apiKey
CreateApiKey(request, instanceKey) ==
    IF "api_key" \in DOMAIN request /\ request.api_key # ""
    THEN request.api_key ELSE instanceKey

\* create: the payload is the request as it came
CreatePayload_Whole(request) == request

\* create: payload = {...request}; delete payload.api_key
CreatePayload(request) == Without(request, "api_key")

\* chat.create(request) up to the first await of sendSecureRequest; the
\* request object is the caller's, given and as it is after the call
Call_create(p) ==
    /\ CanCall(p)
    /\ \E request \in ChatRequests :
         LET apiKey == CreateApiKey(request, cfg.apiKey)
             payload == CreatePayload(request)
             pr == [IdleProc EXCEPT !.op = "sendSecureRequest",
                                    !.request = [given |-> request, after |-> request,
                                                 made |-> TRUE]]
         IN procs' = [procs EXCEPT ![p] =
               IF ~ValidateRequest(payload).ok
               THEN Finish(pr, ValidateRequest(payload))
               ELSE EnsureKeysEntry(
                       [pr EXCEPT !.payload = [isObject |-> TRUE,
                                               json |-> JsonText(payload, SmallSize)],
                                  !.payloadId = "openai-compat-1",
                                  !.apiKey = apiKey], "send")]
    /\ gen' = Called
    /\ UNCHANGED <<uctx, cr, hx, cfg, km, files, net>>

(***************************************************************************)
(* The specifications.                                                     *)
(***************************************************************************)
\* one task calls into the client, awaiting each call before the next
Init ==
    /\ uctx = UnusedCtx
    /\ cr = IdleCrypto
    /\ hx = NoExchange
    /\ InitClient({1}, ClientConfigs)

\* explicit key management: client.generateKeys and client.loadKeys, and the
\* KeyManager's getters
KeyCallStep(p) ==
    \/ Call_generateKeys(p) \/ Call_loadKeys(p) \/ LoadRejected(p)
    \/ Call_getPrivateKey(p) \/ Call_getPublicKeyPEM(p) \/ Call_saveKeys(p)

\* a request call resumes after an await: everything ensureKeys does on its
\* behalf, and the HTTP calls settling or stalling
SendResume(p) ==
    \/ EnsureReturn(p) \/ EnsureAccess(p)
    \/ LoadReadPrivate(p) \/ LoadImportPrivate(p) \/ LoadReadPublic(p)
    \/ LoadImportPublic(p)
    \/ GenerateKeyPair(p) \/ GenerateExportPem(p)
    \/ SaveMkdir(p) \/ SaveWritePrivate(p) \/ SaveChmodPrivate(p)
    \/ SaveWritePublic(p) \/ SaveChmodPublic(p)
    \/ EncryptBody(p) \/ EncryptGetResponse(p)
    \/ SendEncrypt(p) \/ SendHeaders(p) \/ SendPostResponse(p)
    \/ HttpStall(p)

\* a call resumes after an await that has settled
Resume(p) == SendResume(p) \/ FetchGetResponse(p)

\* request processing
RequestStep(p) ==
    \/ Call_fetchServerPublicKey(p) \/ Call_encryptPayload(p)
    \/ Call_decryptResponse(p) \/ Call_sendSecureRequest(p)
    \/ Resume(p)

Next == \E p \in Procs : KeyCallStep(p) \/ RequestStep(p)

NextRequests == \E p \in Procs : RequestStep(p)

Spec == Init /\ [][Next]_vars

\* request calls of one task; the event loop runs every continuation whose
\* await has settled
SpecLive == Init /\ [][NextRequests]_vars /\ \A p \in Procs : WF_vars(Resume(p))

\* a SecureByteContext on its own, used with every fn; no client call runs
InitUse ==
    /\ InitUse_ctx
    /\ cr = IdleCrypto
    /\ hx = NoExchange
    /\ InitClient({}, {c \in ClientConfigs :
                        /\ StartsWithHttps(c.routerUrl) /\ ~c.allowHttp
                        /\ c.secureMemory /\ c.browser})

SpecUse == InitUse /\ [][NextUse]_vars

\* one task calls create on a SecureChatCompletion, or encryptPayload on its
\* client, awaiting each call
InitChat ==
    /\ uctx = UnusedCtx
    /\ cr = IdleCrypto
    /\ hx = NoExchange
    /\ InitClient({1}, ChatConfigs)

NextChat == \E p \in Procs : Call_create(p) \/ Call_encryptPayload(p) \/ SendResume(p)

SpecChat == InitChat /\ [][NextChat]_vars

\* one task calls into a client constructed with either keySize
InitKeySize ==
    /\ uctx = UnusedCtx
    /\ cr = IdleCrypto
    /\ hx = NoExchange
    /\ InitClient({1}, KeySizeConfigs)

SpecKeySize == InitKeySize /\ [][Next]_vars

\* two tasks call into one client concurrently (the default configuration,
\* in Node and in a browser)
InitConcurrent ==
    /\ uctx = UnusedCtx
    /\ cr = IdleCrypto
    /\ hx = NoExchange
    /\ InitClient(Procs, {c \in ClientConfigs :
                            /\ StartsWithHttps(c.routerUrl) /\ ~c.allowHttp
                            /\ c.secureMemory})

SpecConcurrent == InitConcurrent /\ [][Next]_vars

\* the same two tasks, making request calls only: the identity comes from
\* ensureKeys alone
SpecRequests == InitConcurrent /\ [][NextRequests]_vars

\* a client in a browser that has generated its keys: nothing on disk, no
\* call under way
InitHeld ==
    /\ cfg \in {c \in ClientConfigs :
                  StartsWithHttps(c.routerUrl) /\ ~c.allowHttp /\ c.browser}
    /\ km = [publicKey |-> 1, privateKey |-> 1, publicKeyPem |-> PublicPem(1)]
    /\ files = [priv |-> NoFile, pub |-> NoFile]
    /\ procs = [p \in Procs |-> IdleProc]
    /\ net = [gets |-> 0, posts |-> 0]
    /\ gen = [next |-> 2, calls |-> 0, auto |-> 0, written |-> 0, bits |-> 0,
              tasks |-> {}]

InitCrypto ==
    /\ uctx = UnusedCtx
    /\ cr = IdleCrypto
    /\ hx = NoExchange
    /\ InitHeld

CryptoStep(p) ==
    \/ PerformGenerateKey(p) \/ PerformAesEncrypt(p) \/ PerformSettle(p)

\* the cipher operations applied to inputs of the caller's choosing
CipherTrial ==
    AesRoundTrip \/ PackageRoundTrip \/ PasswordRoundTrip \/ ImportKeyTrial
    \/ MetadataTrial \/ MalformedTrial \/ DecryptKeyTrial

NextCrypto == \E p \in Procs : CryptoStep(p)

SpecCrypto == InitCrypto /\ [][NextCrypto]_vars

\* the same client, with the cipher operations applied one after another
SpecCipher == InitCrypto /\ [][CipherTrial]_vars

\* one get or post call of either HttpClient, against a server that may stop
\* at any point; time passes, so an armed timeout fires unless it is cleared
InitHttp ==
    /\ uctx = UnusedCtx
    /\ cr = IdleCrypto
    /\ InitHeld
    /\ hx \in {Exchange(impl, method) : impl \in {"node", "browser"},
                                        method \in {"get", "post"}}

SpecHttp ==
    InitHttp /\ [][HttpStep]_vars
    /\ WF_vars(BrowserTimeout) /\ WF_vars(NodeReqTimeout)

(***************************************************************************)
(* Claims.                                                                 *)
(***************************************************************************)
Insecure == ~StartsWithHttps(cfg.routerUrl) /\ ~cfg.allowHttp

Done(p) == procs[p].pc = "done"

GenericDecryptError ==
    SecurityError(<<"Decryption failed: integrity check or authentication failed">>)

\* C1 (as stated): for every SecureByteContext, whether fn resolves or
\* rejects, zeroMemory is invoked exactly once per use call, after fn has
\* settled and before use settles; when use settles the buffer is all zero
\* and use settles with fn's own value or error.
C1_EveryContextZeroed ==
    uctx.pc = "settled" =>
        /\ uctx.log = <<"fn_called", "fn_settled", "zeroMemory", "use_settled">>
        /\ uctx.zeroCalls = uctx.uses
        /\ AllZero(uctx.data)
        /\ uctx.result = uctx.fnOutcome

\* C1 (amended): the same, for every SecureByteContext constructed with
\* useSecure = true; zeroMemory is never invoked while fn is still running.
C1_SecureContextZeroed ==
    uctx.useSecure =>
        /\ uctx.pc \in {"in_fn", "fn_settled"} => uctx.zeroCalls = uctx.uses - 1
        /\ uctx.pc = "settled" =>
             /\ uctx.log = <<"fn_called", "fn_settled", "zeroMemory", "use_settled">>
             /\ uctx.zeroCalls = uctx.uses
             /\ AllZero(uctx.data)
             /\ uctx.result = uctx.fnOutcome

\* C1 witness: a use whose fn rejected while the buffer held non-zero bytes
\* has settled with the buffer zeroed.
C1_Witness ==
    /\ uctx.pc = "settled" /\ uctx.useSecure /\ ~uctx.fnOutcome.ok
    /\ uctx.atSettle # NoBuf /\ ~AllZero(uctx.atSettle)
    /\ AllZero(uctx.data) /\ uctx.zeroCalls = 1

\* C2: with secure memory enabled, when encryptPayload settles (success or
\* any failure after the payload was serialized, size rejection included)
\* the serialized payload bytes and the raw AES key bytes are all zero, and
\* when decryptResponse settles the recovered AES key bytes and the decrypted
\* plaintext bytes are all zero.
C2_SecretsZeroedOnEveryExit ==
    \A p \in Procs :
        (cfg.secureMemory /\ Done(p)
         /\ procs[p].op \in {"encryptPayload", "decryptResponse", "sendSecureRequest"}) =>
            /\ AllZero(procs[p].payloadBytes)
            /\ AllZero(procs[p].aesKeyBytes)
            /\ AllZero(procs[p].plaintext)

\* C3: on a client whose routerUrl is not https and whose allowHttp is false,
\* fetchServerPublicKey fails with SecurityError and no GET is issued before
\* it fails; reached through encryptPayload or sendSecureRequest (the AES key
\* has been generated, so performEncryption went on to the fetch), the caller
\* receives that SecurityError.
C3_InsecureFetchRefused ==
    Insecure =>
        \A p \in Procs :
            /\ procs[p].pc \notin {"fk_get", "enc_get"}
            /\ (Done(p) /\ (procs[p].op = "fetchServerPublicKey"
                            \/ (procs[p].op \in {"encryptPayload", "sendSecureRequest"}
                                /\ procs[p].aesKeyBytes # NoBuf))) =>
                 /\ procs[p].result.name = "SecurityError"
                 /\ procs[p].gets = 0 /\ procs[p].posts = 0
                 /\ net.gets = 0

\* C3 witness: a sendSecureRequest on such a client got as far as the fetch
\* and was rejected with the SecurityError.
C3_Witness ==
    /\ Insecure
    /\ \E p \in Procs :
         /\ Done(p) /\ procs[p].op = "sendSecureRequest"
         /\ procs[p].aesKeyBytes # NoBuf
         /\ procs[p].result.name = "SecurityError"

\* C4: a client whose routerUrl is not https and whose allowHttp is false
\* never issues any HTTP request, neither the GET nor the POST, over every
\* sequence of client operations.
C4_InsecureClientIsSilent ==
    Insecure => net.gets = 0 /\ net.posts = 0

\* C4 witness: such a client has generated keys and finished a second call,
\* a sendSecureRequest, without any request on the wire.
C4_Witness ==
    /\ Insecure /\ hasKeys /\ gen.calls = MaxCalls
    /\ net.gets = 0 /\ net.posts = 0
    /\ \E p \in Procs : Done(p) /\ procs[p].op = "sendSecureRequest"

\* C5: decryptResponse on a structurally valid package: whichever step of the
\* decryption sequence fails, the caller gets the same SecurityError with the
\* same message.
C5_OneDecryptionError ==
    \A p \in Procs :
        (Done(p) /\ procs[p].op = "decryptResponse" /\ procs[p].cause # "") =>
            procs[p].result = GenericDecryptError

\* C5 witness: a decryptResponse that failed in AES-GCM authentication
\* settled with the generic SecurityError.
C5_Witness ==
    \E p \in Procs :
        /\ Done(p) /\ procs[p].op = "decryptResponse"
        /\ procs[p].cause = "AES-GCM decryption failed"
        /\ procs[p].result = GenericDecryptError

\* C6: sendSecureRequest: when the server answers 200 but the body fails
\* decryption or the integrity check, the caller receives the SecurityError
\* itself, not converted to any other kind, and the request is not retried.
C6_SecurityErrorVerbatim ==
    \A p \in Procs :
        (Done(p) /\ procs[p].op = "sendSecureRequest" /\ procs[p].status = 200
         /\ procs[p].cause # "") =>
            /\ procs[p].result = GenericDecryptError
            /\ procs[p].posts = 1

\* C7: sendSecureRequest: when the POST returns a non-200 status, the caller
\* receives the error derived from the status code (400 InvalidRequestError,
\* 401 AuthenticationError, 429 RateLimitError, 500 ServerError, 404 and any
\* other status APIError carrying the status), and no decryption is attempted.
C7_StatusErrorTaxonomy ==
    \A p \in Procs :
        (Done(p) /\ procs[p].op = "sendSecureRequest" /\ procs[p].posts = 1
         /\ procs[p].io = "response" /\ procs[p].status # 200) =>
            /\ procs[p].result.name =
                 (CASE procs[p].status = 400 -> "InvalidRequestError"
                    [] procs[p].status = 401 -> "AuthenticationError"
                    [] procs[p].status = 429 -> "RateLimitError"
                    [] procs[p].status = 500 -> "ServerError"
                    [] OTHER -> "APIError")
            /\ procs[p].result.status = procs[p].status
            /\ procs[p].cause = "" /\ procs[p].plaintext = NoBuf

\* C8 (as stated): when the public-key GET or the request POST times out,
\* the call fails with APIConnectionError, never with SecurityError, and a
\* Scoped Secret Context already entered (the AES key context always, the
\* payload context when secure memory is on) is still zeroed.
C8_TimeoutIsConnectionErrorAndZeroed ==
    \A p \in Procs :
        (Done(p) /\ procs[p].io = "timeout") =>
            /\ procs[p].result.name = "APIConnectionError"
            /\ AllZero(procs[p].aesKeyBytes)
            /\ cfg.secureMemory => AllZero(procs[p].payloadBytes)

\* C8 (amended): on a timeout of the GET or the POST the call fails with
\* APIConnectionError, never with SecurityError, and when secure memory is
\* enabled the contexts already entered are zeroed.
C8_TimeoutIsConnectionError ==
    \A p \in Procs :
        (Done(p) /\ procs[p].io = "timeout") =>
            /\ procs[p].result.name = "APIConnectionError"
            /\ cfg.secureMemory =>
                 AllZero(procs[p].aesKeyBytes) /\ AllZero(procs[p].payloadBytes)

\* C8 witness: an encryptPayload whose public-key GET timed out, with both
\* contexts entered, failed with APIConnectionError and zeroed buffers.
C8_Witness ==
    \E p \in Procs :
        /\ Done(p) /\ procs[p].op = "encryptPayload" /\ procs[p].io = "timeout"
        /\ cfg.secureMemory /\ procs[p].gets = 1
        /\ procs[p].aesKeyBytes # NoBuf /\ AllZero(procs[p].aesKeyBytes)
        /\ procs[p].payloadBytes # NoBuf /\ AllZero(procs[p].payloadBytes)
        /\ procs[p].result.name = "APIConnectionError"

\* C9: for any interleaving of concurrent sendSecureRequest / encryptPayload
\* calls on a client whose KeyManager is Uninitialized, at most one key pair
\* is generated by ensureKeys and at most one is written to client_keys/.
C9_OneIdentityGenerated ==
    gen.auto <= 1 /\ gen.written <= 1

\* C10: once hasKeys() is true, no step of sendSecureRequest, encryptPayload,
\* decryptResponse or fetchServerPublicKey changes the held public or private
\* key.
C10_IdentityReadOnly ==
    [][\A p \in Procs :
          (hasKeys /\ procs[p].op \in RequestOps /\ procs'[p] # procs[p]) =>
              (km'.privateKey = km.privateKey /\ km'.publicKey = km.publicKey)]_vars

\* C11: a getPrivateKey() or getPublicKeyPEM() call succeeds only when
\* hasKeys() is true; whenever it is not (freshly constructed, or after a
\* failed generateKeys / loadKeys) the call fails with the no-key-available
\* error and returns no key material.
C11_GettersNeedKeys ==
    \A p \in Procs :
        (Done(p) /\ procs[p].op \in {"getPrivateKey", "getPublicKeyPEM"} /\ ~hasKeys) =>
            /\ ~procs[p].result.ok
            /\ procs[p].result.val = <<>>

\* C12: whenever generateKeys resolves the manager holds the pair that call
\* generated, and when saveToFile was requested private_key.pem and
\* public_key.pem of that same pair are on disk by then; whenever loadKeys
\* resolves the manager holds the keys read from the files; saveKeys on a
\* manager holding no key fails and writes nothing.
C12_KeyManagerTransitions ==
    \A p \in Procs :
        LET pr == procs[p] IN
        /\ (Done(p) /\ pr.op = "generateKeys" /\ pr.result.ok) =>
              /\ hasKeys
              /\ km.privateKey = pr.keyPair /\ km.publicKey = pr.keyPair
              /\ pr.keyPair = gen.next - 1
              /\ pr.opts.saveToFile =>
                    /\ files.priv.pem = ExportPrivateKey(pr.keyPair, pr.opts.password)
                    /\ files.pub.pem = PublicPem(pr.keyPair)
                    /\ pr.writes = 2
        /\ (Done(p) /\ pr.op = "loadKeys" /\ pr.result.ok) =>
              /\ hasKeys
              /\ km.privateKey = ImportPrivateKey(files.priv.pem, pr.opts.password)
              /\ km.publicKey = ImportPublicKey(files.pub.pem)
        /\ (Done(p) /\ pr.op = "saveKeys"
             /\ km.privateKey = NoKey /\ km.publicKey = NoKey) =>
              /\ ~pr.result.ok
              /\ pr.writes = 0

\* C12 witness: a generateKeys with saveToFile and a password has resolved
\* where client_keys/ held another pair, and both files hold the new pair.
C12_Witness ==
    \E p \in Procs :
        /\ Done(p) /\ procs[p].op = "generateKeys" /\ procs[p].result.ok
        /\ procs[p].opts.saveToFile /\ procs[p].opts.password = "pw"
        /\ procs[p].keyPair = 2 /\ km.privateKey = 2
        /\ files.priv.pem = ExportPrivateKey(2, "pw") /\ files.pub.pem = PublicPem(2)

\* what the first ensureKeys of call p did, once it has resolved
EnsureLog(p) ==
    LET e == procs[p].ek
        at == {i \in DOMAIN e : e[i] = "resolved"}
    IN IF at = {} THEN <<>>
       ELSE SubSeq(e, 1, CHOOSE i \in at : \A j \in at : i <= j)

\* C13: ensureKeys, called by encryptPayload or sendSecureRequest: with keys
\* held it does nothing (no file access, no generation); otherwise in Node it
\* first tries the two files under client_keys/ and generates only when they
\* cannot be loaded, then writes the generated pair; in a browser, where
\* nothing can be loaded or saved, it generates and writes nothing; whenever
\* it resolves hasKeys() is true.
C13_EnsureIdentity ==
    \A p \in Procs :
        LET pr == procs[p] IN
        pr.op \in {"encryptPayload", "sendSecureRequest"} =>
            /\ \A i \in DOMAIN pr.ek :
                  /\ pr.ek[i] = "generate" =>
                        /\ pr.ek[1] = "empty"
                        /\ \A j \in DOMAIN pr.ek : pr.ek[j] # "loaded"
                        /\ ~cfg.browser => pr.ek[2] = "access"
                  /\ pr.ek[i] \in {"access", "load", "save"} => ~cfg.browser
            /\ EnsureLog(p) # <<>> =>
                  /\ hasKeys
                  /\ EnsureLog(p) \in
                        IF cfg.browser
                        THEN {<<"held", "resolved">>, <<"empty", "generate", "resolved">>}
                        ELSE {<<"held", "resolved">>,
                              <<"empty", "access", "load", "loaded", "resolved">>,
                              <<"empty", "access", "load", "generate", "save", "resolved">>,
                              <<"empty", "access", "generate", "save", "resolved">>}
                  /\ EnsureLog(p) = <<"held", "resolved">> =>
                        pr.keyPair = NoKey /\ pr.writes = 0
                  /\ pr.keyPair # NoKey =>
                        pr.writes = IF cfg.browser THEN 0 ELSE 2

\* C13 witness: in Node, with a private_key.pem that loadKeys cannot import,
\* an encryptPayload's ensureKeys tried the load, generated, saved and
\* resolved.
C13_Witness ==
    \E p \in Procs :
        /\ procs[p].op = "encryptPayload" /\ ~cfg.browser
        /\ EnsureLog(p) = <<"empty", "access", "load", "generate", "save", "resolved">>
        /\ hasKeys /\ km.privateKey = procs[p].keyPair
        /\ files.priv.pem = ExportPrivateKey(procs[p].keyPair, "")

\* C14: a private key that the automatic identity creation of encryptPayload
\* or sendSecureRequest wrote to client_keys/private_key.pem, the caller never
\* having opted out of password protection, is not plaintext PKCS8.
C14_NoPlaintextKeyUnasked ==
    \A p \in Procs :
        (procs[p].op \in {"encryptPayload", "sendSecureRequest"}
         /\ procs[p].writes >= 1) =>
            files.priv.pem.wrapped

C16_FreshKeyAndNonce ==
    /\ cr.keys = cr.calls
    /\ \A i, j \in DOMAIN cr.encs :
          i # j =>
            /\ cr.encs[i].key # cr.encs[j].key
            /\ cr.encs[i].nonce # cr.encs[j].nonce
            /\ cr.encs[i].call # cr.encs[j].call
    /\ \A p, q \in Procs :
          (p # q /\ cr.task[p].pc # "idle" /\ cr.task[q].pc # "idle") =>
              cr.task[p].key # cr.task[q].key

\* C16 witness: three performEncryption calls, two of them overlapping, have
\* each encrypted once.
C16_Witness ==
    /\ Len(cr.encs) = MaxEncryptions
    /\ \E i \in DOMAIN cr.encs : cr.encs[i].call > i

C18_TamperDetected ==
    (cr.trial.kind = "package" /\ cr.trial.input.tamper # "none")
        => /\ ~cr.trial.out.ok
           /\ cr.trial.out.val = <<>>
           /\ cr.trial.out = DecryptCatch(cr.trial.out)

\* the ciphertext of a package made for the client's own key was altered
C18_Witness ==
    /\ cr.trial.kind = "package"
    /\ cr.trial.input.tamper = "ciphertext"
    /\ cr.trial.input.recipient = km.privateKey
    /\ cr.trial.out.name = "SecurityError"

\* C19: a private key exported under a password W comes back from
\* importPrivateKey under W; the exported bytes are salt (16) || iv (16) ||
\* ciphertext, salt and iv drawn anew by every export; and under every other
\* password the import fails with the one 'Failed to decrypt private key'
\* error.
C19_PasswordRoundTrip ==
    /\ (cr.trial.kind = "password" /\ cr.trial.input.password # "")
         => LET inp == cr.trial.input
                combined == pemToArrayBuffer(inp.pem, "PRIVATE")
            IN /\ Len(combined) = 3
               /\ Slice(combined, 0, 16) = inp.salt
               /\ Slice(combined, 16, 32) = inp.iv
               /\ Slice(combined, 32, ByteLength(combined)).kind = "cbc"
               /\ inp.given = inp.password => cr.trial.out = Ok(inp.key)
               /\ inp.given # inp.password
                    => cr.trial.out =
                         Err("Error", <<"Failed to decrypt private key: invalid password or corrupted key">>)
    /\ \A i, j \in DOMAIN cr.exports :
         /\ cr.exports[i].salt # cr.exports[j].iv
         /\ i # j => /\ cr.exports[i].salt # cr.exports[j].salt
                     /\ cr.exports[i].iv # cr.exports[j].iv

\* C20: AESEncryption.importKey fails with a ConfigurationError, without a
\* call to the cipher, for every byte string that is not exactly 32 bytes
\* long, and returns a key for every 32-byte string.
C20_ImportKeyLength ==
    cr.trial.kind = "importKey"
        => IF ByteLength(cr.trial.input.keyData) # AES_KEY_LENGTH
           THEN /\ ~cr.trial.out.outcome.ok
                /\ cr.trial.out.outcome.name = "ConfigurationError"
                /\ cr.trial.out.subtle = 0
           ELSE /\ cr.trial.out.outcome.ok
                /\ cr.trial.out.outcome.val = cr.trial.input.keyData

C30_EveryCallSettles == <>(hx.promise # "pending")

\* C22: a sendSecureRequest call issues at most one GET /pki/public_key and
\* at most one POST /v1/chat/secure_completion, and it always reaches a
\* terminal state: it settles with a result or with an error.
C22_TerminalNoRetry ==
    /\ [](\A p \in Procs : procs[p].op = "sendSecureRequest"
                               => procs[p].gets <= 1 /\ procs[p].posts <= 1)
    /\ \A p \in Procs : (procs[p].op = "sendSecureRequest") ~> (procs[p].pc = "done")

\* C23: every POST of sendSecureRequest goes to routerUrl +
\* /v1/chat/secure_completion with the envelope encryptPayload returned as
\* its body, X-Payload-ID the payloadId argument, X-Public-Key the
\* percent-encoded PEM of the public key the KeyManager holds, Content-Type
\* application/octet-stream, and Authorization 'Bearer <apiKey>' exactly when
\* an apiKey was given.
C23_PostAsSpecified ==
    [][\A p \in Procs :
          (procs[p].pc = "send_headers" /\ procs'[p].pc = "send_post") =>
              LET post == procs'[p].post
                  h == post.headers IN
              /\ post.url = <<cfg.routerUrl, "/v1/chat/secure_completion">>
              /\ post.body = procs[p].pkg /\ post.body # <<>>
              /\ h["X-Payload-ID"] = <<procs[p].payloadId>>
              /\ h["X-Public-Key"] = <<encodeURIComponent(PublicPem(km'.publicKey))>>
              /\ h["Content-Type"] = <<"application/octet-stream">>
              /\ ("Authorization" \in DOMAIN h) <=> (procs[p].apiKey # "")
              /\ procs[p].apiKey # "" => h["Authorization"] = <<"Bearer ", procs[p].apiKey>>]_vars

MalformedPackage ==
    {<<"Empty encrypted response">>,
     <<"Invalid encrypted package format: malformed JSON">>,
     <<"Missing required field in encrypted package">>,
     <<"Missing field in encrypted_payload">>}

\* the body is a JSON object of the EncryptedPackage schema
OfSchema(body) ==
    /\ StructurallyValid(body)
    /\ IsBase64(body.pkg.encrypted_payload.ciphertext)

\* C25: a decryptResponse whose input is not a JSON object of the
\* EncryptedPackage schema, or lacks a required field, fails with one of the
\* malformed-package errors, and the private key was not used.
C25_MalformedRejectedUnopened ==
    (cr.trial.kind = "body" /\ ~OfSchema(cr.trial.input)) =>
        /\ ~cr.trial.out.result.ok
        /\ cr.trial.out.result.name = "Error"
        /\ cr.trial.out.result.msg \in MalformedPackage
        /\ ~cr.trial.out.privateKeyUsed

\* C26 as stated: the object a successful decryptResponse returns has
\* _metadata.payload_id equal to the argument, is_encrypted true and
\* encryption_algorithm equal to the package's algorithm, whatever the
\* response carried under those names; every other field of the response
\* and every other entry of its _metadata is as the response had it.
C26_MetadataAttached ==
    (cr.trial.kind = "metadata" /\ cr.trial.out.ok) =>
        LET doc == cr.trial.input.doc
            response == cr.trial.out.val.response
            meta == response._metadata
            own == IF "_metadata" \in DOMAIN doc THEN DOMAIN doc._metadata ELSE {}
        IN /\ meta.payload_id = cr.trial.input.payloadId
           /\ meta.is_encrypted = TRUE
           /\ meta.encryption_algorithm = cr.trial.input.pkg.algorithm
           /\ \A n \in DOMAIN doc \ {"_metadata"} :
                 n \in DOMAIN response /\ response[n] = doc[n]
           /\ \A n \in own \ {"payload_id", "is_encrypted", "encryption_algorithm"} :
                 n \in DOMAIN meta /\ meta[n] = doc._metadata[n]

\* C26, amended: processed_at is a fourth entry the client sets, to the
\* package's processed_at or to undefined when the package has none; only
\* the entries under the other names are as the response had them.
C26_MetadataAttachedFour ==
    (cr.trial.kind = "metadata" /\ cr.trial.out.ok) =>
        LET doc == cr.trial.input.doc
            pkg == cr.trial.input.pkg
            response == cr.trial.out.val.response
            meta == response._metadata
            own == IF "_metadata" \in DOMAIN doc THEN DOMAIN doc._metadata ELSE {}
        IN /\ DOMAIN response = DOMAIN doc \cup {"_metadata"}
           /\ DOMAIN meta = own \cup MetadataNames
           /\ meta.payload_id = cr.trial.input.payloadId
           /\ meta.is_encrypted = TRUE
           /\ meta.encryption_algorithm = pkg.algorithm
           /\ meta.processed_at = (IF "processed_at" \in DOMAIN pkg
                                   THEN pkg.processed_at ELSE Undefined)
           /\ \A n \in DOMAIN doc \ {"_metadata"} : response[n] = doc[n]
           /\ \A n \in own \ MetadataNames : meta[n] = doc._metadata[n]

\* a response that came with its own payload_id, processed_at, is_encrypted
\* and encryption_algorithm was decrypted from a package without processed_at
C26_Witness ==
    /\ cr.trial.kind = "metadata" /\ cr.trial.out.ok
    /\ "_metadata" \in DOMAIN cr.trial.input.doc
    /\ "processed_at" \in DOMAIN cr.trial.input.doc._metadata
    /\ cr.trial.input.doc._metadata.payload_id # cr.trial.input.payloadId
    /\ "processed_at" \notin DOMAIN cr.trial.input.pkg
    /\ cr.trial.out.val.response._metadata.processed_at = Undefined
    /\ cr.trial.out.val.response._metadata.response_status = "success"

\* what the KeyManager throws when it has no key, or cannot load one
KeyManagementFailures ==
    {"No private key available. Generate or load keys first.",
     "No public key available. Generate or load keys first.",
     "No keys to save. Generate or load keys first.",
     "ENOENT", "importPrivateKey failed", "importPublicKey failed",
     "Failed to decrypt private key: invalid password or corrupted key"}

\* C27: an operation that failed because the KeyManager had no key, or could
\* not load one, does not settle with a SecurityError.
C27_KeyFailuresNotSecurityErrors ==
    \A p \in Procs :
        (procs[p].pc = "done" /\ ~procs[p].result.ok
            /\ (procs[p].cause \in KeyManagementFailures
                 \/ (procs[p].result.msg # <<>>
                        /\ procs[p].result.msg[1] \in KeyManagementFailures))) =>
                procs[p].result.name # "SecurityError"

\* C28: the key pair the client generated last, by generateKeys or by
\* ensureKeys, has the modulus the ClientConfig's keySize names (4096 when it
\* names none).
C28_KeySizeHonoured ==
    gen.bits # 0 => gen.bits = cfg.keySize

C31_DecryptKeyHidesCause ==
    (cr.trial.kind = "decryptKey" /\ ~cr.trial.out.first.ok /\ ~cr.trial.out.second.ok) =>
        cr.trial.out.first.msg = cr.trial.out.second.msg

\* C32: in every state of a sendSecureRequest, an AES key was drawn or a
\* request went out only after its ensureKeys resolved, the KeyManager
\* holding both keys; a POST went out only after the GET and with the
\* package encryptPayload returned; decryptResponse ran only on a response
\* with status 200.
C32_SendOrdering ==
    \A p \in Procs :
        LET pr == procs[p] IN
        pr.op = "sendSecureRequest" =>
            /\ (pr.aesKeyBytes # NoBuf \/ pr.gets > 0 \/ pr.posts > 0) =>
                  /\ \E i \in DOMAIN pr.ek : pr.ek[i] = "resolved"
                  /\ hasKeys
            /\ pr.posts > 0 =>
                  /\ pr.gets = 1 /\ pr.posts = 1
                  /\ pr.pkg # <<>>
                  /\ pr.post.body = pr.pkg
                  /\ base64ToArrayBuffer(pr.pkg.encrypted_aes_key).ok
            /\ pr.decrypts > 0 =>
                  /\ pr.posts = 1 /\ pr.io = "response" /\ pr.status = 200
                  /\ pr.decrypts = 1

\* a sendSecureRequest that generated its key pair, fetched, posted and
\* decrypted a status-200 response
C32_Witness ==
    \E p \in Procs :
        /\ procs[p].op = "sendSecureRequest" /\ procs[p].pc = "done"
        /\ procs[p].result.ok
        /\ procs[p].gets = 1 /\ procs[p].posts = 1 /\ procs[p].decrypts = 1
        /\ \E i \in DOMAIN procs[p].ek : procs[p].ek[i] = "generate"

\* C33: the private key a sendSecureRequest decrypted its response with is
\* the partner of the public key it sent in X-Public-Key.
C33_DecryptsWithSentIdentity ==
    \A p \in Procs :
        (procs[p].op = "sendSecureRequest" /\ procs[p].privateKeyUsed) =>
            procs[p].usedKey = ImportPublicKey(procs[p].pem)

\* C34: in every state, a public and a private key that are both held
\* belong to one key pair, and a cached publicKeyPem is the PEM of the held
\* public key.
C34_KeyManagerConsistent ==
    /\ hasKeys => km.publicKey = km.privateKey
    /\ km.publicKeyPem # NoPem =>
          (km.publicKey # NoKey /\ km.publicKeyPem = PublicPem(km.publicKey))

\* C35: no step of a call that reached the files through ensureKeys changes
\* the content of a private_key.pem that exists.
C35_PersistedIdentityKept ==
    [][\A p \in Procs :
          (procs[p].op \in RequestOps /\ procs'[p] # procs[p] /\ files.priv # NoFile) =>
              (files'.priv # NoFile /\ files'.priv.pem = files.priv.pem)]_vars

\* C36: every step that writes one of the key files leaves private_key.pem
\* readable by its owner only, and a step that writes public_key.pem leaves
\* the two files holding one key pair.
C36_PrivateKeyFileRestricted ==
    [][(files'.priv # files.priv \/ files'.pub # files.pub) =>
          /\ files'.priv # NoFile
          /\ files'.priv.mode = 600
          /\ files'.pub # files.pub => files'.pub.pem.body = files'.priv.pem.body]_vars

\* C37: a settled fetchServerPublicKey returned a PEM only when its GET was
\* answered with status 200 and a body that imports as a public key; when
\* the GET was made and anything else happened it failed with an
\* APIConnectionError and no key; when the channel check refused, no GET was
\* made and the check's SecurityError is the error.
C37_FetchOutcomes ==
    \A p \in Procs :
        LET pr == procs[p] IN
        (pr.op = "fetchServerPublicKey" /\ pr.pc = "done") =>
            /\ pr.result.ok =>
                  /\ pr.gets = 1 /\ pr.io = "response" /\ pr.status = 200
                  /\ ImportPublicKey(pr.result.val) # NoKey
            /\ (~pr.result.ok /\ pr.gets = 1) =>
                  /\ pr.result.name = "APIConnectionError"
                  /\ pr.result.val = <<>>
                  /\ (pr.io # "response" \/ pr.status # 200
                        \/ pr.result.msg[2] = "Server returned invalid public key format")
            /\ (~pr.result.ok /\ pr.gets = 0) =>
                  /\ pr.result = ChannelCheck
                  /\ pr.result.name = "SecurityError"

\* a fetch answered with status 200 and a body that is no public key has
\* failed with an APIConnectionError
C37_Witness ==
    \E p \in Procs :
        /\ procs[p].op = "fetchServerPublicKey" /\ procs[p].pc = "done"
        /\ procs[p].status = 200 /\ ~procs[p].result.ok
        /\ procs[p].result.name = "APIConnectionError"

\* a call made with input that fails validation: a create whose request
\* lacks model or has no array under messages, an encryptPayload whose
\* payload is no object
InvalidInput(pr) ==
    \/ /\ pr.request.made
       /\ \/ "model" \notin DOMAIN pr.request.given
          \/ "messages" \notin DOMAIN pr.request.given
          \/ ~pr.request.given.messages.array
    \/ pr.op = "encryptPayload" /\ ~pr.payload.isObject

\* C38: the step in which a call is made with invalid input settles the call
\* with an error and changes neither the KeyManager nor the files nor what
\* went over the network; the call drew no AES key and took no step of
\* ensureKeys.
C38_ValidationFirst ==
    [][\A p \in Procs :
          (procs[p].pc \in {"idle", "done"} /\ procs'[p] # procs[p]
              /\ InvalidInput(procs'[p])) =>
                /\ procs'[p].pc = "done" /\ ~procs'[p].result.ok
                /\ km' = km /\ files' = files /\ net' = net
                /\ procs'[p].ek = <<>> /\ procs'[p].aesKeyBytes = NoBuf
                /\ procs'[p].gets = 0 /\ procs'[p].posts = 0
                /\ procs'[p].writes = 0]_vars

\* the second call on a client, a create without model, has failed and the
\* client still holds no key and has sent nothing
C38_Witness ==
    \E p \in Procs :
        /\ procs[p].pc = "done" /\ InvalidInput(procs[p])
        /\ procs[p].request.made
        /\ "model" \notin DOMAIN procs[p].request.given
        /\ ~hasKeys /\ gen.calls = 2 /\ net.gets = 0

\* the bytes of a PEM are salt || iv || ciphertext of a CBC encryption
PasswordWrapped(pem) ==
    LET combined == pemToArrayBuffer(pem, "PRIVATE") IN
      /\ Len(combined) = 3
      /\ combined[1].n = 16 /\ combined[2].n = 16
      /\ combined[3].v.kind = "cbc"

\* C39: an exportPrivateKey that was passed a password argument, the empty
\* string included, returns the password-wrapped PEM and not the PKCS8 bytes.
C39_PasswordAlwaysWraps ==
    (cr.trial.kind = "password" /\ cr.trial.input.passed) =>
        /\ PasswordWrapped(cr.trial.input.pem)
        /\ pemToArrayBuffer(cr.trial.input.pem, "PRIVATE") # Pkcs8(cr.trial.input.key)

====
